---- MODULE Spec2Model ----
(***************************************************************************)
(* StreamDeck worker (src/public/streamdeck-worker.js).                    *)
(*                                                                         *)
(* Part 1, the room synchronizer PartyDO: one actor instance of one room,  *)
(* from its construction on.  The JavaScript event loop runs every handler *)
(* to its next await; the two awaits of the class (init() in fetch,        *)
(* persist() in the message listener) are the points where other events    *)
(* interleave.  The storage collaborator completes its operations in the   *)
(* order they were issued and may reject a put; a socket whose connection  *)
(* has errored throws on send.                                             *)
(*                                                                         *)
(* Part 2, the /party/ route over several rooms: the worker sends each     *)
(* request to the PartyDO instance of its room name.                       *)
(*                                                                         *)
(* Part 3, the object bucket: enforceQuota and the POST /upload route that *)
(* calls it.  Their awaits (bucket.list, bucket.delete, the download, the  *)
(* put) are the steps; the bucket may reject a list, a delete or a put.    *)
(***************************************************************************)
EXTENDS Integers, Sequences, FiniteSets, TLC

\* ------------------------------------------------------------------ bounds
MaxFetches == 3     \* fetch requests reaching the actor (socket ids 1..MaxFetches)
MaxMessages == 1    \* message events delivered to the actor
MaxConns == 2       \* requests reaching the /party/ route (connection ids 1..MaxConns)
MaxObjects == 3     \* keys the bucket may hold (key ranks 1..MaxObjects)
MaxClock == 6       \* half seconds the clock of the token checks runs for
MaxRetries == 4     \* the largest `retries` fetchWithRetry is called with
MaxUploads == 1     \* POST /upload requests served

Sockets == 1..MaxFetches

VARIABLES
    stateData,      \* this.stateData: the canonical playback state (field -> value)
    sessions,       \* this.sessions: array of accepted server sockets
    initialized,    \* this.initialized
    storage,        \* this.state.storage: durable key -> value map
    initWait,       \* the fetch suspended at `await this.init()`: <<>> or <<socket id, Upgrade header>>
    pending,        \* message handlers suspended at `await this.persist()`, in issue order
    sock,           \* per socket: "new" (not created), "open", "errored", "closed"
    sends,          \* history: the send() calls made by the last step
    firstKind,      \* history: per socket, what its first delivered message was
    loadCount,      \* history: calls of storage.get("state")
    fetchCount,     \* history: fetch requests received
    msgCount,       \* history: message events delivered
    last,           \* history: per connected socket, the most recently delivered message
    handled,        \* history: sender of the last update whose handler ran to its end (0: none)
    actors,         \* the worker's PartyDO instances: actor id -> its fields
    conn,           \* the /party/ requests so far: for each its room id, actor and socket state
    partyMsgs,      \* history: message events delivered on the sockets of `conn`
    at,             \* history: the room name the last /party/ step was handled for
    bucket,         \* env.MEDIA, the object bucket: key -> [size, uploaded]
    quota,          \* the locals of the enforceQuota call in progress, and its result
    upload,         \* the locals of the POST /upload request in progress, and its response
    now,            \* the bucket's clock, which stamps `uploaded` on a put
    inflight,       \* two POST /upload requests served at once: request -> its locals
    media,          \* the locals of the GET /media/ request in progress, and its response
    retry,          \* the locals of the fetchWithRetry call in progress, and its outcome
    jwt,            \* the token handed to verifyJWT, and what came of it
    kv,             \* env.KV, the key-value store: key -> value
    gate            \* the request at /login or at a privileged route, and its response

roomVars == <<stateData, sessions, initialized, storage, initWait, pending, sock,
              sends, firstKind, loadCount, fetchCount, msgCount, last, handled>>

partyVars == <<actors, conn, partyMsgs, at>>

bucketVars == <<bucket, quota, upload, now, inflight>>

restVars == <<media, retry, jwt, kv, gate>>

vars == <<roomVars, partyVars, bucketVars, restVars>>

\* ------------------------------------------------------------ PartyDO data
\* constructor, lines 73-79
DefaultState ==
    [mainUrl |-> "", subUrl |-> "", timestamp |-> 0, paused |-> TRUE, queue |-> <<>>]

EmptyObject == [f \in {} |-> 0]

\* What an earlier instance of the room may have left under the key "state".
InitialStorage ==
    { EmptyObject,
      [state |-> [mainUrl |-> "", subUrl |-> "", timestamp |-> 3, paused |-> FALSE,
                  queue |-> <<>>]] }

\* evt.data of the message events the clients send (JSON text): an object with
\* a field of the playback state and a field that is not one, a JSON string,
\* null, and text that is not JSON.
Messages ==
    { "{\"timestamp\":7,\"chat\":\"hi\"}",
      "\"a\"",
      "null",
      "{oops" }

\* JSON.parse(evt.data), line 129: the parsed value, tagged with its JSON type;
\* text that is not JSON throws a SyntaxError.
JSONparse(text) ==
    CASE text = "{\"timestamp\":7,\"chat\":\"hi\"}" ->
              [type |-> "object", value |-> [timestamp |-> 7, chat |-> "hi"]]
      [] text = "\"a\"" -> [type |-> "string", value |-> <<"a">>]
      [] text = "null" -> [type |-> "null", value |-> <<>>]
      [] OTHER -> [type |-> "SyntaxError", value |-> <<>>]

\* The own enumerable properties Object.assign copies from a source (line 130):
\* the fields of an object, the index keys "0", "1", ... of a string, nothing
\* for null.
IndexKey(i) == CASE i = 1 -> "0" [] i = 2 -> "1" [] OTHER -> "2"

OwnProperties(data) ==
    CASE data.type = "object" -> data.value
      [] data.type = "string" ->
              [k \in {IndexKey(i) : i \in DOMAIN data.value} |->
                  data.value[CHOOSE i \in DOMAIN data.value : IndexKey(i) = k]]
      [] OTHER -> EmptyObject

\* Mutant of ObjectAssign: the source replaces the target instead of merging.
ObjectReplace(target, source) == source

\* Object.assign(target, source), lines 85 and 130.
ObjectAssign(target, source) ==
    [f \in DOMAIN target \cup DOMAIN source |->
        IF f \in DOMAIN source THEN source[f] ELSE target[f]]

\* JSON.stringify(this.stateData), lines 93 and 122: the wire form of the state.
\* Every value of the state came out of JSON.parse or the constructor, so each
\* field is serialised and the receiver parses back the same fields.
JSONstringify(state) == [f \in DOMAIN state |-> state[f]]

\* this.state.storage.put(key, value), line 89, once it has resolved.
StoragePut(key, value) ==
    [k \in DOMAIN storage \cup {key} |-> IF k = key THEN value ELSE storage[k]]

\* s.send(msg) throws when the socket is not open (lines 97, 122).
SendOk(s) == sock[s] = "open"

SendRecord(to, msg, kind, except) ==
    [to |-> to, msg |-> msg, ok |-> SendOk(to), kind |-> kind, except |-> except,
     raced |-> FALSE]

\* Mutant of BroadcastLoop: the sender is not skipped.
RECURSIVE BroadcastToAll(_, _, _)
BroadcastToAll(list, except, msg) ==
    IF list = <<>> THEN [sends |-> {}, threw |-> FALSE]
    ELSE LET rest == BroadcastToAll(Tail(list), except, msg)
         IN  [sends |-> {SendRecord(Head(list), msg, "broadcast", except)}
                            \cup rest.sends,
              threw |-> rest.threw]

\* Mutant of BroadcastLoop: no try/catch around send, so the first send that
\* throws ends the loop and leaves the method.
RECURSIVE BroadcastNoCatch(_, _, _)
BroadcastNoCatch(list, except, msg) ==
    IF list = <<>> THEN [sends |-> {}, threw |-> FALSE]
    ELSE LET s == Head(list)
             rest == BroadcastNoCatch(Tail(list), except, msg)
         IN  IF s = except THEN rest
             ELSE IF SendOk(s)
                  THEN [sends |-> {SendRecord(s, msg, "broadcast", except)}
                                     \cup rest.sends,
                        threw |-> rest.threw]
                  ELSE [sends |-> {SendRecord(s, msg, "broadcast", except)},
                        threw |-> TRUE]

\* broadcast(except), lines 92-103: walks this.sessions in order; a send that
\* throws is caught inside the loop.  Yields the sends made and whether an
\* exception left the method.
RECURSIVE BroadcastLoop(_, _, _)
BroadcastLoop(list, except, msg) ==
    IF list = <<>> THEN [sends |-> {}, threw |-> FALSE]
    ELSE LET s == Head(list)
             rest == BroadcastLoop(Tail(list), except, msg)
         IN  IF s # except
             THEN [sends |-> {SendRecord(s, msg, "broadcast", except)} \cup rest.sends,
                   threw |-> rest.threw]
             ELSE rest

broadcast(except) == BroadcastLoop(sessions, except, JSONstringify(stateData))

\* ---------------------------------------------------------------- history
NoMessage == EmptyObject

Delivered(S, i) == {r \in S : r.to = i /\ r.ok}

Deliver(S) ==
    /\ sends' = S
    /\ firstKind' = [i \in Sockets |->
            IF firstKind[i] = "none" /\ Delivered(S, i) # {}
            THEN (CHOOSE r \in Delivered(S, i) : TRUE).kind ELSE firstKind[i]]

\* ------------------------------------------------- the /party/ route, data
\* Room names the clients use; "" is what split("/")[2] yields for "/party/".
RoomNames == {"a", "b"}

\* url.pathname.split("/") of the requests that reach the /party/ route
\* (line 410): "/party/a", "/party/b", "/party/a/x", "/party/".
PartyPaths ==
    { <<"", "party", "a">>, <<"", "party", "b">>, <<"", "party", "a", "x">>,
      <<"", "party", "">> }

\* Mutant of idFromName: every room name yields the same actor id.
idFromAnyName(name) == 1

\* env.PARTY.idFromName(roomId), line 419: one id per name, the same at every
\* call.
idFromName(name) == CASE name = "a" -> 1 [] name = "b" -> 2 [] OTHER -> 3

ActorIds == {idFromName(n) : n \in RoomNames}

\* PartyDO.constructor, lines 69-81, of the instance whose storage is `store`:
\* every field is the instance's own.
NewActor(store) ==
    [stateData |-> DefaultState, sessions |-> <<>>, initialized |-> FALSE,
     storage |-> store, initWait |-> <<>>, pending |-> <<>>]

\* No request has reached the /party/ route.
PartyStart ==
    /\ actors = [id \in ActorIds |-> NewActor(EmptyObject)]
    /\ conn = <<>>
    /\ partyMsgs = 0
    /\ at = ""

\* ------------------------------------------------- the object bucket, data
\* Sizes are counted in units of 2.5 GiB, so that the 10 GiB of line 153 is 4.
MAX_BUCKET_SIZE == 4

\* bucket.list({ limit: 1000, cursor }), line 178: the page limit, scaled down
\* so that a bucket of MaxObjects objects spans more than one page.
ListLimit == 2

\* A key is named by its rank in the lexicographic order the listing uses.
Keys == 1..MaxObjects

Sizes == {0, 1, 2}

Times == {1, 2, 3}

\* Every content of the bucket: any set of keys, any sizes, any upload times
\* (equal ones included), in any order relative to the keys.
AllBuckets ==
    UNION {[S -> [size : Sizes, uploaded : Times]] : S \in SUBSET Keys}

EmptyBucket == [k \in {} |-> [size |-> 0, uploaded |-> 0]]

IdleQuota == [pc |-> "idle"]

IdleUpload == [pc |-> "idle", served |-> 0]

Requests == {1, 2}

NoneInFlight == [r \in Requests |-> [quota |-> IdleQuota, upload |-> IdleUpload]]

\* No other request or call is in progress.
RestStart ==
    /\ media = [pc |-> "idle"]
    /\ retry = [pc |-> "idle"]
    /\ jwt = [pc |-> "idle"]
    /\ kv = EmptyObject
    /\ gate = [pc |-> "idle"]

\* Nothing has called enforceQuota or POST /upload.
BucketStart ==
    /\ bucket = EmptyBucket
    /\ quota = IdleQuota
    /\ upload = IdleUpload
    /\ now = 4
    /\ inflight = NoneInFlight

\* ------------------------------------------------------------------- Init
Init ==
    /\ stateData = DefaultState
    /\ sessions = <<>>
    /\ initialized = FALSE
    /\ storage \in InitialStorage
    /\ initWait = <<>>
    /\ pending = <<>>
    /\ sock = [i \in Sockets |-> "new"]
    /\ sends = {}
    /\ firstKind = [i \in Sockets |-> "none"]
    /\ loadCount = 0
    /\ fetchCount = 0
    /\ msgCount = 0
    /\ last = [i \in Sockets |-> NoMessage]
    /\ handled = 0
    /\ PartyStart
    /\ BucketStart
    /\ RestStart

\* ---------------------------------------------------------------- actions
UpgradeHeaders == {"websocket", "none"}

\* Mutant of Upgrade: the socket is registered but not sent the current state.
UpgradeSilently(id, header, current) ==
    IF header # "websocket"
    THEN /\ UNCHANGED <<sessions, sock>>
         /\ Deliver({})
    ELSE /\ sessions' = Append(sessions, id)
         /\ sock' = [sock EXCEPT ![id] = "open"]
         /\ Deliver({})

\* fetch, lines 111-146, for the request that would own socket `id`: a request
\* without the websocket Upgrade header is answered 426; otherwise the socket is
\* accepted, pushed on this.sessions and sent the state `current`.  The socket
\* was accepted in this same synchronous block, so it is open and this send
\* does not throw.
Upgrade(id, header, current) ==
    IF header # "websocket"
    THEN /\ UNCHANGED <<sessions, sock>>
         /\ Deliver({})
    ELSE /\ sessions' = Append(sessions, id)
         /\ sock' = [sock EXCEPT ![id] = "open"]
         /\ Deliver({[to |-> id, msg |-> JSONstringify(current), ok |-> TRUE,
                      kind |-> "initial", except |-> 0, raced |-> FALSE]})

\* fetch, lines 105-108, first request: sets the flag and suspends in init(),
\* whose storage.get is issued now.
FetchFirst(header) ==
    /\ ~initialized
    /\ fetchCount < MaxFetches
    /\ initialized' = TRUE
    /\ fetchCount' = fetchCount + 1
    /\ loadCount' = loadCount + 1
    /\ initWait' = <<fetchCount + 1, header>>
    /\ Deliver({})
    /\ UNCHANGED <<stateData, sessions, storage, pending, sock, msgCount>>

\* init, lines 83-86, resumed with the stored value, then the rest of that fetch.
InitDone ==
    /\ initWait # <<>>
    /\ stateData' = IF "state" \in DOMAIN storage
                    THEN ObjectAssign(stateData, storage["state"])
                    ELSE stateData
    /\ Upgrade(initWait[1], initWait[2], stateData')
    /\ initWait' = <<>>
    /\ UNCHANGED <<initialized, storage, pending, loadCount, fetchCount, msgCount>>

\* Mutant of FetchLater: init() is called on every fetch, not only the first.
FetchLaterReloading(header) ==
    /\ initialized
    /\ fetchCount < MaxFetches
    /\ fetchCount' = fetchCount + 1
    /\ loadCount' = loadCount + 1
    /\ stateData' = IF "state" \in DOMAIN storage
                    THEN ObjectAssign(stateData, storage["state"])
                    ELSE stateData
    /\ Upgrade(fetchCount + 1, header, stateData')
    /\ UNCHANGED <<initialized, storage, initWait, pending, msgCount>>

\* fetch, lines 105-146, any later request: no await on its path.
FetchLater(header) ==
    /\ initialized
    /\ fetchCount < MaxFetches
    /\ fetchCount' = fetchCount + 1
    /\ Upgrade(fetchCount + 1, header, stateData)
    /\ UNCHANGED <<stateData, initialized, storage, initWait, pending, loadCount,
                   msgCount>>

\* message listener, lines 127-131, up to `await this.persist()`: parse, merge,
\* issue storage.put with the merged state.  A SyntaxError goes to the catch.
OnMessage(s, text) ==
    /\ sock[s] = "open"
    /\ msgCount < MaxMessages
    /\ msgCount' = msgCount + 1
    /\ LET data == JSONparse(text) IN
         IF data.type = "SyntaxError"
         THEN UNCHANGED <<stateData, pending>>
         ELSE /\ stateData' = ObjectAssign(stateData, OwnProperties(data))
              /\ pending' = Append(pending,
                     [sender |-> s, text |-> text, pre |-> stateData,
                      put |-> stateData', raced |-> FALSE])
    /\ Deliver({})
    /\ UNCHANGED <<sessions, initialized, storage, initWait, sock, loadCount,
                   fetchCount>>

\* persist resolves (lines 88-90, 131-132): the value is durable, then broadcast.
PersistDone ==
    /\ pending # <<>>
    /\ initWait = <<>>
    /\ LET h == Head(pending)
           b == broadcast(h.sender)
       IN  /\ storage' = StoragePut("state", h.put)
           /\ Deliver({[r EXCEPT !.raced = h.raced] : r \in b.sends})
    /\ pending' = Tail(pending)
    /\ UNCHANGED <<stateData, sessions, initialized, initWait, sock, loadCount,
                   fetchCount, msgCount>>

\* persist rejects (lines 131-135): the listener's catch logs it; no broadcast.
PersistFail ==
    /\ pending # <<>>
    /\ initWait = <<>>
    /\ pending' = Tail(pending)
    /\ Deliver({})
    /\ UNCHANGED <<stateData, sessions, initialized, storage, initWait, sock,
                   loadCount, fetchCount, msgCount>>

\* Mutant of Filter: the closed socket is left in the list.
FilterNothing(list, server) == list

\* this.sessions.filter(s => s !== server), line 139
Filter(list, server) == SelectSeq(list, LAMBDA s : s # server)

\* close listener, lines 138-140.  (`raced` notes, for the handlers suspended in
\* persist, that a close happened meanwhile.)
OnClose(s) ==
    /\ sock[s] \in {"open", "errored"}
    /\ sessions' = Filter(sessions, s)
    /\ sock' = [sock EXCEPT ![s] = "closed"]
    /\ pending' = [k \in DOMAIN pending |-> [pending[k] EXCEPT !.raced = TRUE]]
    /\ Deliver({})
    /\ UNCHANGED <<stateData, initialized, storage, initWait, loadCount,
                   fetchCount, msgCount>>

\* error listener, lines 142-144: logs; the socket stays in this.sessions.
OnError(s) ==
    /\ sock[s] = "open"
    /\ sock' = [sock EXCEPT ![s] = "errored"]
    /\ Deliver({})
    /\ UNCHANGED <<stateData, sessions, initialized, storage, initWait, pending,
                   loadCount, fetchCount, msgCount>>

\* The histories `last` and `handled` are kept only in the behaviours of
\* SpecSync, the room whose storage and sockets never fail.
Untracked == UNCHANGED <<last, handled>> /\ UNCHANGED <<partyVars, bucketVars, restVars>>

Track ==
    /\ last' = [i \in Sockets |->
            IF sock'[i] = "closed" THEN NoMessage
            ELSE IF Delivered(sends', i) # {}
                 THEN (CHOOSE r \in Delivered(sends', i) : TRUE).msg
                 ELSE last[i]]
    /\ handled' = IF Len(pending') < Len(pending) THEN Head(pending).sender
                  ELSE handled
    /\ UNCHANGED <<partyVars, bucketVars, restVars>>

Next ==
    \/ \E header \in UpgradeHeaders : FetchFirst(header) /\ Untracked
    \/ InitDone /\ Untracked
    \/ \E header \in UpgradeHeaders : FetchLater(header) /\ Untracked
    \/ \E s \in Sockets, text \in Messages : OnMessage(s, text) /\ Untracked
    \/ PersistDone /\ Untracked
    \/ PersistFail /\ Untracked
    \/ \E s \in Sockets : OnClose(s) /\ Untracked
    \/ \E s \in Sockets : OnError(s) /\ Untracked

Spec == Init /\ [][Next]_vars

NextSync ==
    \/ \E header \in UpgradeHeaders : FetchFirst(header) /\ Track
    \/ InitDone /\ Track
    \/ \E header \in UpgradeHeaders : FetchLater(header) /\ Track
    \/ \E s \in Sockets, text \in Messages : OnMessage(s, text) /\ Track
    \/ PersistDone /\ Track
    \/ \E s \in Sockets : OnClose(s) /\ Track

SpecSync == Init /\ [][NextSync]_vars

\* ------------------------------------------- the /party/ route, many rooms
\* The one room above, before any request: what the specifications of the other
\* parts of the worker hold it at.
RoomStart ==
    /\ stateData = DefaultState
    /\ sessions = <<>>
    /\ initialized = FALSE
    /\ storage = EmptyObject
    /\ initWait = <<>>
    /\ pending = <<>>
    /\ sock = [i \in Sockets |-> "new"]
    /\ sends = {}
    /\ firstKind = [i \in Sockets |-> "none"]
    /\ loadCount = 0
    /\ fetchCount = 0
    /\ msgCount = 0
    /\ last = [i \in Sockets |-> NoMessage]
    /\ handled = 0

InitParty ==
    /\ RoomStart
    /\ BucketStart
    /\ RestStart
    /\ actors \in [ActorIds -> {NewActor(store) : store \in InitialStorage}]
    /\ conn = <<>>
    /\ partyMsgs = 0
    /\ at = ""

\* PartyDO.fetch, lines 111-146, on the fields `a` of one instance, for the
\* request that owns connection c.
ActorUpgrade(a, c, header) ==
    IF header # "websocket" THEN a ELSE [a EXCEPT !.sessions = Append(@, c)]

SocketState(header) == IF header # "websocket" THEN "none" ELSE "open"

\* The /party/ route, lines 410-421, and the instance's fetch up to its first
\* await or its end (lines 105-146).  A path without a room id is answered 400;
\* otherwise the request goes to the actor of idFromName(roomId).
PartyFetch(path, header) ==
    /\ Len(conn) < MaxConns
    /\ LET roomId == path[3]
           id == idFromName(roomId)
           c == Len(conn) + 1
       IN  IF roomId = ""
           THEN /\ conn' = Append(conn, [room |-> roomId, actor |-> 0, state |-> "none"])
                /\ UNCHANGED <<actors, at>>
           ELSE /\ at' = roomId
                /\ IF ~actors[id].initialized
                   THEN /\ actors' = [actors EXCEPT ![id].initialized = TRUE,
                                                    ![id].initWait = <<c, header>>]
                        /\ conn' = Append(conn, [room |-> roomId, actor |-> id,
                                                 state |-> "waiting"])
                   ELSE /\ actors' = [actors EXCEPT
                                         ![id] = ActorUpgrade(@, c, header)]
                        /\ conn' = Append(conn, [room |-> roomId, actor |-> id,
                                                 state |-> SocketState(header)])
    /\ UNCHANGED partyMsgs

\* init of instance id resumes (lines 83-86), then the rest of that fetch.
PartyInitDone(id) ==
    /\ actors[id].initWait # <<>>
    /\ LET a == actors[id]
           c == a.initWait[1]
           header == a.initWait[2]
           loaded == IF "state" \in DOMAIN a.storage
                     THEN ObjectAssign(a.stateData, a.storage["state"])
                     ELSE a.stateData
       IN  /\ actors' = [actors EXCEPT ![id] =
                  ActorUpgrade([a EXCEPT !.stateData = loaded, !.initWait = <<>>],
                               c, header)]
           /\ conn' = [conn EXCEPT ![c].state = SocketState(header)]
           /\ at' = conn[c].room
    /\ UNCHANGED partyMsgs

\* message listener of connection c, lines 127-131: the listener closes over
\* the instance whose fetch accepted the socket.
PartyMessage(c, text) ==
    /\ c \in DOMAIN conn
    /\ conn[c].state = "open"
    /\ partyMsgs < MaxMessages
    /\ partyMsgs' = partyMsgs + 1
    /\ at' = conn[c].room
    /\ LET id == conn[c].actor
           data == JSONparse(text)
           merged == ObjectAssign(actors[id].stateData, OwnProperties(data))
       IN  IF data.type = "SyntaxError"
           THEN UNCHANGED actors
           ELSE actors' = [actors EXCEPT
                    ![id].stateData = merged,
                    ![id].pending = Append(@, [sender |-> c, put |-> merged])]
    /\ UNCHANGED conn

\* persist of instance id resolves (lines 88-90) or rejects (lines 133-135).
PartyPersist(id, resolved) ==
    /\ actors[id].pending # <<>>
    /\ actors[id].initWait = <<>>
    /\ LET h == Head(actors[id].pending)
           store == actors[id].storage
       IN  /\ actors' = [actors EXCEPT
                  ![id].pending = Tail(@),
                  ![id].storage = IF resolved
                                  THEN [k \in DOMAIN store \cup {"state"} |-> h.put]
                                  ELSE store]
           /\ at' = conn[h.sender].room
    /\ UNCHANGED <<conn, partyMsgs>>

\* close listener of connection c, lines 138-140.
PartyClose(c) ==
    /\ c \in DOMAIN conn
    /\ conn[c].state = "open"
    /\ actors' = [actors EXCEPT ![conn[c].actor].sessions = Filter(@, c)]
    /\ conn' = [conn EXCEPT ![c].state = "closed"]
    /\ at' = conn[c].room
    /\ UNCHANGED partyMsgs

NextParty ==
    \/ \E path \in PartyPaths, header \in UpgradeHeaders :
            PartyFetch(path, header) /\ UNCHANGED <<roomVars, bucketVars, restVars>>
    \/ \E id \in ActorIds : PartyInitDone(id) /\ UNCHANGED <<roomVars, bucketVars, restVars>>
    \/ \E c \in 1..MaxConns, text \in Messages :
            PartyMessage(c, text) /\ UNCHANGED <<roomVars, bucketVars, restVars>>
    \/ \E id \in ActorIds, resolved \in BOOLEAN :
            PartyPersist(id, resolved) /\ UNCHANGED <<roomVars, bucketVars, restVars>>
    \/ \E c \in 1..MaxConns : PartyClose(c) /\ UNCHANGED <<roomVars, bucketVars, restVars>>

SpecParty == InitParty /\ [][NextParty]_vars

\* ---------------------------------------------------------- enforceQuota
RECURSIVE FirstKeys(_, _)
FirstKeys(S, n) ==
    IF n = 0 \/ S = {} THEN <<>>
    ELSE LET m == CHOOSE k \in S : \A j \in S : k <= j
         IN  <<m>> \o FirstKeys(S \ {m}, n - 1)

\* bucket.list({ limit, cursor }), line 178, on the bucket content b: the next
\* `limit` objects in key order after the cursor, whether more remain, and the
\* cursor that continues after this page (0: no cursor).
BucketList(b, limit, cursor) ==
    LET rest == {k \in DOMAIN b : k > cursor}
        ks == FirstKeys(rest, limit)
    IN  [objects |-> [i \in DOMAIN ks |->
                        [key |-> ks[i], size |-> b[ks[i]].size,
                         uploaded |-> b[ks[i]].uploaded]],
         truncated |-> Cardinality(rest) > limit,
         cursor |-> IF Cardinality(rest) > limit THEN ks[Len(ks)] ELSE 0]

RECURSIVE SumSizes(_)
SumSizes(items) ==
    IF items = <<>> THEN 0 ELSE Head(items).size + SumSizes(Tail(items))

\* Mutant of InitialTotal: the incoming size is not counted.
InitialTotalZero(additionalSize) == 0

\* let total = additionalSize, line 172
InitialTotal(additionalSize) == additionalSize

\* Mutant of NextCursor: the first page is taken to be the whole listing.
NoNextCursor(listed) == 0

\* cursor = listed.truncated ? listed.cursor : undefined, line 183
NextCursor(listed) == IF listed.truncated THEN listed.cursor ELSE 0

\* Mutant of WithinBudget: a total equal to the budget counts as over it.
StrictlyWithin(total, maxBytes) == total < maxBytes

\* total <= maxBytes, line 186
WithinBudget(total, maxBytes) == total <= maxBytes

\* Mutants of LoopBreak: the eviction loop never stops early; it stops at once.
NeverBreak(total, maxBytes) == FALSE

BreakAtOnce(total, maxBytes) == TRUE

\* if (total <= maxBytes) break, line 197
LoopBreak(total, maxBytes) == total <= maxBytes

\* Mutant of SortByUploaded: the items stay in listing order.
Unsorted(items) == items

\* items.sort((a, b) => a.uploaded.getTime() - b.uploaded.getTime()), line 191:
\* ascending by upload time; the sort is stable, so equal times keep the
\* listing order.
RECURSIVE SortByUploaded(_)
SortByUploaded(items) ==
    IF items = <<>> THEN <<>>
    ELSE LET last1 == items[Len(items)]
             front == SortByUploaded(SubSeq(items, 1, Len(items) - 1))
             keep == SelectSeq(front, LAMBDA o : o.uploaded <= last1.uploaded)
             move == SelectSeq(front, LAMBDA o : o.uploaded > last1.uploaded)
         IN  keep \o <<last1>> \o move

\* The eviction loop, lines 196-204, from its top with the locals q: to the
\* return, or to the next `await bucket.delete`.
EvictLoop(q) ==
    IF q.i > Len(q.items) \/ LoopBreak(q.total, q.maxBytes)
    THEN [q EXCEPT !.pc = "done",
                   !.result = [success |-> TRUE, deletedCount |-> q.deletedCount,
                               freedSpace |-> q.freedSpace]]
    ELSE [q EXCEPT !.pc = "delete"]

\* Mutant of AfterListing: the oldest object is deleted before the total is
\* compared with the budget.
AfterListingDeleteFirst(q) ==
    IF q.items = <<>>
    THEN [q EXCEPT !.pc = "done",
                   !.result = [success |-> TRUE, deletedCount |-> 0, freedSpace |-> 0]]
    ELSE [q EXCEPT !.items = SortByUploaded(q.items), !.i = 1, !.pc = "delete"]

\* Lines 186-194, once the listing loop is left.
AfterListing(q) ==
    IF WithinBudget(q.total, q.maxBytes)
    THEN [q EXCEPT !.pc = "done",
                   !.result = [success |-> TRUE, deletedCount |-> 0, freedSpace |-> 0]]
    ELSE EvictLoop([q EXCEPT !.items = SortByUploaded(q.items), !.i = 1])

NoResult == [success |-> FALSE, deletedCount |-> 0, freedSpace |-> 0]

\* enforceQuota(bucket, maxBytes, additionalSize), lines 171-178, up to the
\* first `await bucket.list`.  (`before`, `pages` and `deleted` are histories:
\* the bucket at the call, the pages listed, the keys deleted in order.)
QuotaCall(maxBytes, additionalSize) ==
    [pc |-> "list", maxBytes |-> maxBytes, additionalSize |-> additionalSize,
     total |-> InitialTotal(additionalSize), items |-> <<>>, cursor |-> 0, i |-> 0,
     deletedCount |-> 0, freedSpace |-> 0, result |-> NoResult,
     before |-> bucket, pages |-> 0, deleted |-> <<>>]

\* The locals q after a page of the listing of b has arrived, lines 178-184,
\* and the function has run on to its next await or its return.
ListStep(q, b) ==
    LET listed == BucketList(b, ListLimit, q.cursor)
        q1 == [q EXCEPT !.items = @ \o listed.objects,
                        !.total = @ + SumSizes(listed.objects),
                        !.cursor = NextCursor(listed),
                        !.pages = @ + 1]
    IN  IF q1.cursor # 0 THEN q1 ELSE AfterListing(q1)

\* The locals q after bucket.delete(obj.key) is done, lines 198-201, and the
\* loop has run on.
DeleteStep(q) ==
    LET obj == q.items[q.i]
    IN  EvictLoop([q EXCEPT !.total = @ - obj.size,
                            !.freedSpace = @ + obj.size,
                            !.deletedCount = @ + 1,
                            !.i = @ + 1,
                            !.deleted = Append(@, obj.key)])

\* A page of the listing arrives, lines 178-184, and the function runs on to
\* its next await or its return.
QuotaListed ==
    /\ quota.pc = "list"
    /\ quota' = ListStep(quota, bucket)
    /\ UNCHANGED <<bucket, now>>

\* bucket.delete(obj.key) is done, lines 198-201, and the loop runs on.
QuotaDeleted ==
    /\ quota.pc = "delete"
    /\ bucket' = [k \in DOMAIN bucket \ {quota.items[quota.i].key} |-> bucket[k]]
    /\ quota' = DeleteStep(quota)
    /\ UNCHANGED now

\* bucket.list or bucket.delete rejects: enforceQuota has no catch, so the
\* rejection leaves it.
QuotaRejected ==
    /\ quota.pc \in {"list", "delete"}
    /\ quota' = [quota EXCEPT !.pc = "threw"]
    /\ UNCHANGED <<bucket, now>>

Budgets == {2, MAX_BUCKET_SIZE}

Incoming == 0..(MAX_BUCKET_SIZE + 1)

InitQuota ==
    /\ RoomStart
    /\ PartyStart
    /\ RestStart
    /\ bucket \in AllBuckets
    /\ quota = IdleQuota
    /\ upload = IdleUpload
    /\ now = 4
    /\ inflight = NoneInFlight

\* enforceQuota called on its own, with any budget and incoming size.
QuotaStart(maxBytes, additionalSize) ==
    /\ quota.pc = "idle"
    /\ quota' = QuotaCall(maxBytes, additionalSize)
    /\ UNCHANGED <<bucket, now>>

NextQuota ==
    \/ \E maxBytes \in Budgets, additionalSize \in Incoming :
            QuotaStart(maxBytes, additionalSize)
                /\ UNCHANGED <<roomVars, partyVars, restVars, upload, inflight>>
    \/ QuotaListed /\ UNCHANGED <<roomVars, partyVars, restVars, upload, inflight>>
    \/ QuotaDeleted /\ UNCHANGED <<roomVars, partyVars, restVars, upload, inflight>>
    \/ QuotaRejected /\ UNCHANGED <<roomVars, partyVars, restVars, upload, inflight>>

SpecQuota == InitQuota /\ [][NextQuota]_vars

\* ------------------------------------------------------------ POST /upload
\* What downloadFromGoogleDrive (lines 268-361) hands the route: for a file
\* link one file, whose size is 0 when no metadata was read (lines 288, 297);
\* for a folder link its files, each with the size the listing gave (lines
\* 341-351).  `actual` is the length of the body the download url serves,
\* which is what a put stores.
BodySizes == {1, 2, 3}

FileLinks ==
    {<<[name |-> n, size |-> IF known THEN a ELSE 0, actual |-> a]>> :
        n \in Keys, a \in BodySizes, known \in BOOLEAN}

FolderLinks ==
    {<<[name |-> n1, size |-> a1, actual |-> a1],
       [name |-> n2, size |-> a2, actual |-> a2]>> :
        n1 \in Keys, n2 \in Keys, a1 \in BodySizes, a2 \in BodySizes}

\* The bucket before the requests: empty, or holding two objects that fill
\* the budget.
InitialBuckets ==
    { EmptyBucket,
      [k \in {1, 2} |-> [size |-> 2, uploaded |-> 3 - k]] }

InitUpload ==
    /\ RoomStart
    /\ PartyStart
    /\ RestStart
    /\ bucket \in InitialBuckets
    /\ quota = IdleQuota
    /\ upload = IdleUpload
    /\ now = 4
    /\ inflight = NoneInFlight

\* files.reduce((sum, f) => sum + (f.size || 0), 0), line 731
RECURSIVE TotalSize(_)
TotalSize(files) ==
    IF files = <<>> THEN 0 ELSE Head(files).size + TotalSize(Tail(files))

\* Mutant of QuotaAwaited: the route does not wait for enforceQuota.
QuotaNotAwaited(q) == TRUE

\* const quotaResult = await enforceQuota(...), line 734: the route goes on
\* when the call has returned.
QuotaAwaited(q) == q.pc = "done"

\* The end of one turn of the loop over the files (line 740): on to the next
\* file's download, or to the 200 response of lines 780-795.
NextFile(u) ==
    IF u.k + 1 > Len(u.files)
    THEN [u EXCEPT !.k = @ + 1, !.pc = "done", !.status = 200]
    ELSE [u EXCEPT !.k = @ + 1, !.at = "fetch"]

\* The route's locals at the first await of enforceQuota, lines 730-734.
NewUpload(files, served) ==
    [pc |-> "running", served |-> served, files |-> files,
     totalSize |-> TotalSize(files), k |-> 1, at |-> "fetch",
     uploaded |-> <<>>, errors |-> <<>>, status |-> 0]

\* The route from line 730 to the first await of enforceQuota.  One request is
\* served at a time.
UploadStart(files) ==
    /\ upload.pc \in {"idle", "done", "failed"}
    /\ upload.served < MaxUploads
    /\ upload' = NewUpload(files, upload.served + 1)
    /\ quota' = QuotaCall(MAX_BUCKET_SIZE, TotalSize(files))
    /\ UNCHANGED <<bucket, now>>

\* The locals u after fetchWithRetry(f.url), line 745, has resolved with an ok
\* response or thrown into the catch of lines 771-777.
FetchedStep(u, ok) ==
    IF ok THEN [u EXCEPT !.at = "put"]
    ELSE NextFile([u EXCEPT !.errors = Append(@, u.files[u.k].name)])

\* Mutant of PutStep: the file is listed as uploaded whatever the put did.
PutStepListedAnyway(u, ok) ==
    NextFile([u EXCEPT !.uploaded = Append(@, u.files[u.k].name)])

\* The locals u after env.MEDIA.put, lines 756-769, has resolved or rejected.
PutStep(u, ok) ==
    IF ok THEN NextFile([u EXCEPT !.uploaded = Append(@, u.files[u.k].name)])
    ELSE NextFile([u EXCEPT !.errors = Append(@, u.files[u.k].name)])

\* The bucket b after a put of the file f at time t: the object is stored
\* under the name, with the body's length.
PutObject(b, f, t) ==
    [k \in DOMAIN b \cup {f.name} |->
        IF k = f.name THEN [size |-> f.actual, uploaded |-> t] ELSE b[k]]

\* await fetchWithRetry(f.url), line 745, resolves with an ok response or
\* throws into the catch of lines 771-777.
UploadFetched(ok) ==
    /\ upload.pc = "running"
    /\ QuotaAwaited(quota)
    /\ upload.at = "fetch"
    /\ upload' = FetchedStep(upload, ok)
    /\ UNCHANGED <<bucket, quota, now>>

\* await env.MEDIA.put(f.name, dataRes.body, ...), lines 756-769, resolves (the
\* object is stored under the name, with the body's length and the time of
\* the put), or rejects into the catch of lines 771-777.
UploadPut(ok) ==
    /\ upload.pc = "running"
    /\ QuotaAwaited(quota)
    /\ upload.at = "put"
    /\ upload' = PutStep(upload, ok)
    /\ IF ok THEN /\ bucket' = PutObject(bucket, upload.files[upload.k], now)
                  /\ now' = now + 1
             ELSE UNCHANGED <<bucket, now>>
    /\ UNCHANGED quota

\* A rejection that leaves enforceQuota leaves the route too, to the catch of
\* lines 1146-1159, which answers 500.
UploadQuotaRejected ==
    /\ upload.pc = "running"
    /\ QuotaRejected
    /\ upload' = [upload EXCEPT !.pc = "failed", !.status = 500]

NextUpload ==
    \/ \E files \in FileLinks \cup FolderLinks :
            UploadStart(files) /\ UNCHANGED <<roomVars, partyVars, restVars, inflight>>
    \/ upload.pc = "running" /\ QuotaListed
            /\ UNCHANGED <<roomVars, partyVars, restVars, upload, inflight>>
    \/ upload.pc = "running" /\ QuotaDeleted
            /\ UNCHANGED <<roomVars, partyVars, restVars, upload, inflight>>
    \/ UploadQuotaRejected /\ UNCHANGED <<roomVars, partyVars, restVars, inflight>>
    \/ \E ok \in BOOLEAN : UploadFetched(ok) /\ UNCHANGED <<roomVars, partyVars, restVars, inflight>>
    \/ \E ok \in BOOLEAN : UploadPut(ok) /\ UNCHANGED <<roomVars, partyVars, restVars, inflight>>

SpecUpload == InitUpload /\ [][NextUpload]_vars

\* --------------------------------------------- two POST /upload at once
\* The worker serves requests concurrently: each runs to its next await, and
\* nothing in the route holds the bucket between a request's enforceQuota and
\* its puts.
InitRace ==
    /\ RoomStart
    /\ PartyStart
    /\ RestStart
    /\ bucket \in InitialBuckets
    /\ quota = IdleQuota
    /\ upload = IdleUpload
    /\ now = 4
    /\ inflight = NoneInFlight

RaceStart(r, files) ==
    /\ inflight[r].upload.pc = "idle"
    /\ inflight' = [inflight EXCEPT
          ![r] = [quota |-> QuotaCall(MAX_BUCKET_SIZE, TotalSize(files)),
                  upload |-> NewUpload(files, 1)]]
    /\ UNCHANGED <<bucket, now>>

RaceListed(r) ==
    /\ inflight[r].upload.pc = "running"
    /\ inflight[r].quota.pc = "list"
    /\ inflight' = [inflight EXCEPT ![r].quota = ListStep(@, bucket)]
    /\ UNCHANGED <<bucket, now>>

RaceDeleted(r) ==
    /\ inflight[r].upload.pc = "running"
    /\ inflight[r].quota.pc = "delete"
    /\ LET q == inflight[r].quota
       IN  bucket' = [k \in DOMAIN bucket \ {q.items[q.i].key} |-> bucket[k]]
    /\ inflight' = [inflight EXCEPT ![r].quota = DeleteStep(@)]
    /\ UNCHANGED now

RaceRejected(r) ==
    /\ inflight[r].upload.pc = "running"
    /\ inflight[r].quota.pc \in {"list", "delete"}
    /\ inflight' = [inflight EXCEPT ![r].quota.pc = "threw",
                                    ![r].upload.pc = "failed",
                                    ![r].upload.status = 500]
    /\ UNCHANGED <<bucket, now>>

RaceFetched(r, ok) ==
    /\ inflight[r].upload.pc = "running"
    /\ QuotaAwaited(inflight[r].quota)
    /\ inflight[r].upload.at = "fetch"
    /\ inflight' = [inflight EXCEPT ![r].upload = FetchedStep(@, ok)]
    /\ UNCHANGED <<bucket, now>>

RacePut(r, ok) ==
    /\ inflight[r].upload.pc = "running"
    /\ QuotaAwaited(inflight[r].quota)
    /\ inflight[r].upload.at = "put"
    /\ inflight' = [inflight EXCEPT ![r].upload = PutStep(@, ok)]
    /\ LET u == inflight[r].upload
       IN  IF ok THEN /\ bucket' = PutObject(bucket, u.files[u.k], now)
                      /\ now' = now + 1
                 ELSE UNCHANGED <<bucket, now>>

NextRace ==
    \/ \E r \in Requests, files \in FileLinks :
            RaceStart(r, files)
                /\ UNCHANGED <<roomVars, partyVars, restVars, quota, upload>>
    \/ \E r \in Requests :
            RaceListed(r) /\ UNCHANGED <<roomVars, partyVars, restVars, quota, upload>>
    \/ \E r \in Requests :
            RaceDeleted(r) /\ UNCHANGED <<roomVars, partyVars, restVars, quota, upload>>
    \/ \E r \in Requests :
            RaceRejected(r) /\ UNCHANGED <<roomVars, partyVars, restVars, quota, upload>>
    \/ \E r \in Requests, ok \in BOOLEAN :
            RaceFetched(r, ok)
                /\ UNCHANGED <<roomVars, partyVars, restVars, quota, upload>>
    \/ \E r \in Requests, ok \in BOOLEAN :
            RacePut(r, ok) /\ UNCHANGED <<roomVars, partyVars, restVars, quota, upload>>

SpecRace == InitRace /\ [][NextRace]_vars

\* ------------------------------------------------------------ GET /media/
\* The request's Range header: absent, or one of these texts.
RangeHeaders ==
    { "none", "bytes=0-1", "bytes=1-", "bytes=0-9", "bytes=5-", "bytes=-1",
      "bytes=x-", "bytes=2-1", "bytes=1-0", "bytes=0-x" }

\* range.replace(/bytes=/, "").split("-"), line 898
RangeParts(range) ==
    CASE range = "bytes=0-1" -> <<"0", "1">>
      [] range = "bytes=1-" -> <<"1", "">>
      [] range = "bytes=0-9" -> <<"0", "9">>
      [] range = "bytes=5-" -> <<"5", "">>
      [] range = "bytes=-1" -> <<"", "1">>
      [] range = "bytes=x-" -> <<"x", "">>
      [] range = "bytes=2-1" -> <<"2", "1">>
      [] range = "bytes=1-0" -> <<"1", "0">>
      [] OTHER -> <<"0", "x">>

\* A JavaScript number: NaN, or an integer.
NaN == [nan |-> TRUE, n |-> 0]

Num(n) == [nan |-> FALSE, n |-> n]

\* parseInt(text, 10), lines 899-900: NaN for text that does not start with
\* digits.
parseInt(text) ==
    CASE text = "0" -> Num(0)
      [] text = "1" -> Num(1)
      [] text = "2" -> Num(2)
      [] text = "5" -> Num(5)
      [] text = "9" -> Num(9)
      [] OTHER -> NaN

\* Mutant of RangeInvalid: a start equal to the size is let through.
RangeInvalidPastSize(start, size) == start.nan \/ start.n < 0 \/ start.n > size

\* isNaN(start) || start < 0 || start >= obj.size, line 903
RangeInvalid(start, size) == start.nan \/ start.n < 0 \/ start.n >= size

\* Mutant of ClampEnd: the requested end is used as it is.
NoClamp(end, size) == end

\* Math.min(end, obj.size - 1), line 914: NaN when end is.
ClampEnd(end, size) ==
    IF end.nan THEN NaN ELSE IF end.n <= size - 1 THEN end ELSE Num(size - 1)

\* A header, a body or a value that is not there.
Absent == [absent |-> TRUE]

\* Mutant of NotFound: the body does not name the file.
NotFoundUnnamed(filename) ==
    [status |-> 404, contentRange |-> Absent, contentLength |-> Absent,
     json |-> [error |-> "File not found"], bytes |-> Absent]

\* The response of lines 876-879.
NotFound(filename) ==
    [status |-> 404, contentRange |-> Absent, contentLength |-> Absent,
     json |-> [error |-> "File not found", filename |-> filename],
     bytes |-> Absent]

\* The response of lines 904-910: `Content-Range: bytes */size`.
InvalidRange(size) ==
    [status |-> 416, contentRange |-> [unit |-> "bytes", range |-> "*", size |-> size],
     contentLength |-> Absent, json |-> Absent, bytes |-> Absent]

\* A response that carries neither of the two headers nor bytes of an
\* object: the 400 of lines 864-867, the 416 of line 923 and the 500 of the
\* catch of lines 1146-1159.
ErrorResponse(status) ==
    [status |-> status, contentRange |-> Absent, contentLength |-> Absent,
     json |-> Absent, bytes |-> Absent]

\* The response of lines 926-938: `Content-Range: bytes start-validEnd/size`,
\* `Content-Length: chunkSize`, and the body the ranged get returned.
Partial(start, validEnd, size, chunkSize, body) ==
    [status |-> 206,
     contentRange |-> [unit |-> "bytes", first |-> start, last |-> validEnd,
                       size |-> size],
     contentLength |-> chunkSize, json |-> Absent, bytes |-> body]

\* The response of lines 942-951: the whole body of the object looked up.
Full(filename, size) ==
    [status |-> 200, contentRange |-> Absent, contentLength |-> Num(size),
     json |-> Absent, bytes |-> [key |-> filename, first |-> 0, last |-> size - 1]]

InitMedia ==
    /\ RoomStart
    /\ PartyStart
    /\ bucket \in {b \in AllBuckets : \A k \in DOMAIN b : b[k].uploaded = 1}
    /\ quota = IdleQuota
    /\ upload = IdleUpload
    /\ now = 4
    /\ inflight = NoneInFlight
    /\ media = [pc |-> "idle"]
    /\ retry = [pc |-> "idle"]
    /\ jwt = [pc |-> "idle"]
    /\ kv = EmptyObject
    /\ gate = [pc |-> "idle"]

\* GET /media/{filename}, lines 860-872, up to `await env.MEDIA.get(filename)`;
\* filename 0 stands for the empty name of the path "/media/".
MediaGet(filename, range) ==
    /\ media.pc = "idle"
    /\ media' = IF filename = 0
                 THEN [pc |-> "done", filename |-> filename, range |-> range,
                       found |-> FALSE, size |-> 0, start |-> NaN, end |-> NaN,
                       validEnd |-> NaN, chunkSize |-> NaN, raced |-> FALSE,
                       response |-> ErrorResponse(400)]
                 ELSE [pc |-> "lookup", filename |-> filename, range |-> range,
                       found |-> FALSE, size |-> 0, start |-> NaN, end |-> NaN,
                       validEnd |-> NaN, chunkSize |-> NaN, raced |-> FALSE,
                       response |-> Absent]
    /\ UNCHANGED bucket

\* The lookup resolves, lines 872-951: 404, the whole object, 416 for a start
\* that is out of range, or on to the ranged get of line 918.
MediaLooked ==
    /\ media.pc = "lookup"
    /\ IF media.filename \notin DOMAIN bucket
       THEN media' = [media EXCEPT !.pc = "done",
                                   !.response = NotFound(media.filename)]
       ELSE LET size == bucket[media.filename].size
                parts == RangeParts(media.range)
                start == parseInt(parts[1])
                end == IF parts[2] # "" THEN parseInt(parts[2]) ELSE Num(size - 1)
                validEnd == ClampEnd(end, size)
                chunkSize == IF validEnd.nan \/ start.nan THEN NaN
                             ELSE Num(validEnd.n - start.n + 1)
                m == [media EXCEPT !.found = TRUE, !.size = size]
            IN  IF media.range = "none"
                THEN media' = [m EXCEPT !.pc = "done",
                                        !.response = Full(media.filename, size)]
                ELSE IF RangeInvalid(start, size)
                THEN media' = [m EXCEPT !.pc = "done", !.start = start, !.end = end,
                                        !.response = InvalidRange(size)]
                ELSE media' = [m EXCEPT !.pc = "ranged", !.start = start,
                                        !.end = end, !.validEnd = validEnd,
                                        !.chunkSize = chunkSize]
    /\ UNCHANGED bucket

\* The ranged get resolves, lines 918-938: null when the object is gone, else
\* the bytes from `offset` on, `length` of them. What the bucket does with a
\* length that is not a positive number is either of two outcomes: it
\* rejects the get, or ignores the length and serves to the end of the object.
MediaRanged(outcome) ==
    /\ media.pc = "ranged"
    /\ LET m == media
           badLength == m.chunkSize.nan \/ m.chunkSize.n < 1
       IN  IF m.filename \notin DOMAIN bucket
           THEN media' = [m EXCEPT !.pc = "done", !.response = ErrorResponse(416)]
           ELSE IF badLength /\ outcome = "rejects"
           THEN media' = [m EXCEPT !.pc = "done", !.response = ErrorResponse(500)]
           ELSE media' = [m EXCEPT
                    !.pc = "done",
                    !.response = Partial(m.start, m.validEnd, m.size, m.chunkSize,
                        [key |-> m.filename, first |-> m.start.n,
                         last |-> IF badLength
                                  THEN bucket[m.filename].size - 1
                                  ELSE m.start.n + m.chunkSize.n - 1])]
    /\ UNCHANGED bucket

\* DELETE /files/{filename}, line 1094, or an eviction (line 198), takes the
\* object away while the read is in progress or before it.
MediaDelete(filename) ==
    /\ filename \in DOMAIN bucket
    /\ media.pc \in {"idle", "lookup", "ranged"}
    /\ bucket' = [k \in DOMAIN bucket \ {filename} |-> bucket[k]]
    /\ media' = IF media.pc # "idle" /\ media.filename = filename
                 THEN [media EXCEPT !.raced = TRUE] ELSE media

NextMedia ==
    \/ \E filename \in 0..MaxObjects, range \in RangeHeaders :
            MediaGet(filename, range)
                /\ UNCHANGED <<roomVars, partyVars, quota, upload, now, inflight,
                               retry, jwt, kv, gate>>
    \/ MediaLooked
            /\ UNCHANGED <<roomVars, partyVars, quota, upload, now, inflight,
                           retry, jwt, kv, gate>>
    \/ \E outcome \in {"rejects", "ignores"} :
            MediaRanged(outcome)
                /\ UNCHANGED <<roomVars, partyVars, quota, upload, now, inflight,
                               retry, jwt, kv, gate>>
    \/ \E filename \in Keys :
            MediaDelete(filename)
                /\ UNCHANGED <<roomVars, partyVars, quota, upload, now, inflight,
                               retry, jwt, kv, gate>>

SpecMedia == InitMedia /\ [][NextMedia]_vars

\* -------------------------------------------------------- fetchWithRetry
\* What one `await fetch(url, { headers })` may come to: a response, or a
\* rejection (a failure at the network level).
Answers ==
    { [kind |-> "response", status |-> 200, text |-> "ok"],
      [kind |-> "response", status |-> 429, text |-> "slow down"],
      [kind |-> "response", status |-> 404, text |-> "not found"],
      [kind |-> "response", status |-> 500, text |-> "server error"],
      [kind |-> "network", status |-> 0, text |-> "fetch failed"] }

\* res.ok, line 239
Ok(res) == res.kind = "response" /\ res.status >= 200 /\ res.status <= 299

\* res.status === 429, line 242
RateLimited(res) == res.kind = "response" /\ res.status = 429

\* Mutant of RateLimitDelay: the attempts counted from one.
RateLimitDelayFromOne(i) == 2^(i + 1) * 1000

\* Math.pow(2, i) * 1000 of line 243, in milliseconds.
RateLimitDelay(i) == 2^i * 1000

\* Mutant of RetryDelay: the same wait after every failure.
RetryDelayFixed(i) == 1000

\* Math.pow(2, i) * 1000 of line 256, in milliseconds.
RetryDelay(i) == 2^i * 1000

\* new Error(`HTTP ${res.status}: ${errorText}`), line 251
HttpError(res) == [message |-> "HTTP", status |-> res.status, text |-> res.text]

\* The rejection of fetch, as the catch of line 253 receives it.
NetworkError(res) == [message |-> res.text, status |-> 0, text |-> ""]

\* new Error("Max retries exceeded"), line 262
MaxRetriesExceeded == [message |-> "Max retries exceeded", status |-> 0, text |-> ""]

InitRetry ==
    /\ RoomStart
    /\ PartyStart
    /\ BucketStart
    /\ media = [pc |-> "idle"]
    /\ jwt = [pc |-> "idle"]
    /\ kv = EmptyObject
    /\ gate = [pc |-> "idle"]
    /\ retry = [pc |-> "idle"]

\* fetchWithRetry(url, retries, headers), lines 234-236: up to the first
\* `await fetch`.
RetryCall(retries) ==
    /\ retry.pc = "idle"
    /\ retry' = [pc |-> "fetch", retries |-> retries, i |-> 0, delay |-> 0,
                 log |-> <<>>, waits |-> <<>>, result |-> Absent,
                 error |-> Absent]

\* The catch of lines 253-259 with the error it caught, on attempt r.i.
Catch(r, err) ==
    IF r.i = r.retries - 1
    THEN [r EXCEPT !.pc = "threw", !.error = err]
    ELSE [r EXCEPT !.pc = "sleep", !.delay = RetryDelay(r.i)]

\* The fetch of attempt i settles, lines 237-258, up to the return, the
\* throw or the next await.
RetryAnswered(res) ==
    /\ retry.pc = "fetch"
    /\ LET r == [retry EXCEPT !.log = Append(@, res)]
       IN  retry' =
               IF res.kind = "network" THEN Catch(r, NetworkError(res))
               ELSE IF Ok(res) THEN [r EXCEPT !.pc = "returned", !.result = res]
               ELSE IF RateLimited(res)
               THEN [r EXCEPT !.pc = "sleep", !.delay = RateLimitDelay(r.i)]
               ELSE Catch(r, HttpError(res))

\* Mutant of RetryWoke: the loop has no bound.
RetryWokeUnbounded ==
    /\ retry.pc = "sleep"
    /\ retry' = [retry EXCEPT !.waits = Append(@, retry.delay), !.i = @ + 1,
                              !.pc = "fetch"]

\* The timer of line 245 or 258 fires: the next turn of the loop, or the
\* throw of line 262 after the last one.
RetryWoke ==
    /\ retry.pc = "sleep"
    /\ LET r == [retry EXCEPT !.waits = Append(@, retry.delay), !.i = @ + 1]
       IN  retry' = IF r.i < r.retries
                    THEN [r EXCEPT !.pc = "fetch"]
                    ELSE [r EXCEPT !.pc = "threw", !.error = MaxRetriesExceeded]

NextRetry ==
    \/ \E retries \in 1..MaxRetries :
            RetryCall(retries)
                /\ UNCHANGED <<roomVars, partyVars, bucketVars, media, jwt, kv, gate>>
    \/ \E res \in Answers :
            RetryAnswered(res)
                /\ UNCHANGED <<roomVars, partyVars, bucketVars, media, jwt, kv, gate>>
    \/ RetryWoke /\ UNCHANGED <<roomVars, partyVars, bucketVars, media, jwt, kv, gate>>

SpecRetry == InitRetry /\ [][NextRetry]_vars

\* Every fetch settles and every timer fires: a call that can take a step
\* takes one.
FairRetry == SpecRetry /\ WF_vars(NextRetry)

\* ------------------------------------------------------ signJWT, verifyJWT
\* A base64 text is modelled by the bytes it spells and by how it spells
\* them: "plain" as btoa without the trailing "=" writes them, "padded" with
\* the "=" put back, "invalid" with a character outside the alphabet in it.
\* btoa(x).replace(/=+$/, ""), lines 9-11
b64(x) == [bytes |-> x, form |-> "plain"]

InvalidCharacterError == [threw |-> "InvalidCharacterError"]

\* atob(x), lines 13-15: the forgiving decoder takes the text with or without
\* its padding, and throws on any other character.
unb64(x) == IF x.form = "invalid" THEN InvalidCharacterError ELSE x.bytes

\* env.JWT_SECRET; "k2" is a key the worker does not hold.
JWT_SECRET == "k1"

\* crypto.subtle.sign("HMAC", key, encoder.encode(base)), line 36: a
\* function of the key and of the text signed, taken to be free of collisions.
HmacSign(secret, base) == [hmac |-> secret, over |-> base]

\* JSON.stringify of the header and of the payload, lines 25-26, and the
\* JSON.parse of line 60: the text spells each field with its value.
JSONstringifyFields(obj) == [json |-> [f \in DOMAIN obj |-> obj[f]]]

JSONparseFields(text) == text.json

\* The claims signJWT is called with (line 397 passes role admin).
ClaimSets == {[role |-> "admin", perms |-> "all"], [role |-> "user", perms |-> "all"]}

Ttls == {1, 2}

\* Mutant of Payload: the ttl is not added.
PayloadExpiresAtIssue(claims, ttl, clock) ==
    [role |-> claims.role, perms |-> claims.perms,
     iat |-> clock \div 1000, exp |-> clock \div 1000]

\* payload.iat = now; payload.exp = now + ttl, lines 19-23, with
\* now = Math.floor(Date.now() / 1000); the clock is in milliseconds.
Payload(claims, ttl, clock) ==
    [role |-> claims.role, perms |-> claims.perms,
     iat |-> clock \div 1000, exp |-> (clock \div 1000) + ttl]

\* base of lines 24-26: the two segments joined by a dot.
Base(h, p) == <<h, p>>

\* signJWT(payload, env, ttl), lines 17-38: the three segments of the token.
signJWT(claims, secret, ttl, clock) ==
    LET h == b64(JSONstringifyFields([alg |-> "HS256", typ |-> "JWT"]))
        p == b64(JSONstringifyFields(Payload(claims, ttl, clock)))
    IN  <<h, p, b64(HmacSign(secret, Base(h, p)))>>

\* verifyJWT(token, env), lines 40-65, at the given clock: the payload it
\* returns or what it throws. crypto.subtle.verify (lines 51-56) holds when
\* the decoded signature is the HMAC of h.p under the key.
verifyJWT(token, secret, clock) ==
    LET h == token[1]
        p == token[2]
        sg == token[3]
    IN  IF unb64(sg) = InvalidCharacterError
        THEN [outcome |-> "threw", error |-> "InvalidCharacterError"]
        ELSE IF unb64(sg) # HmacSign(secret, Base(h, p))
        THEN [outcome |-> "threw", error |-> "bad signature"]
        ELSE IF unb64(p) = InvalidCharacterError
        THEN [outcome |-> "threw", error |-> "InvalidCharacterError"]
        ELSE LET payload == JSONparseFields(unb64(p))
             IN  IF payload.exp * 1000 < clock
                 THEN [outcome |-> "threw", error |-> "expired"]
                 ELSE [outcome |-> "returned", payload |-> payload]

\* Mutant of requireRole: the role is not compared.
requireAnyRole(auth, secret, role, clock) ==
    IF auth = Absent \/ auth.scheme # "Bearer "
    THEN [outcome |-> "threw", error |-> "missing token"]
    ELSE verifyJWT(auth.rest, secret, clock)

\* requireRole(req, env, role), lines 160-169; `auth` is the Authorization
\* header, absent or a scheme with the text after its first seven characters.
requireRole(auth, secret, role, clock) ==
    IF auth = Absent \/ auth.scheme # "Bearer "
    THEN [outcome |-> "threw", error |-> "missing token"]
    ELSE LET user == verifyJWT(auth.rest, secret, clock)
         IN  IF user.outcome = "threw" THEN user
             ELSE IF user.payload.role # role
             THEN [outcome |-> "threw", error |-> "forbidden"]
             ELSE user

\* The spellings of a segment.
Variants(x) == {[x EXCEPT !.form = f] : f \in {"plain", "padded", "invalid"}}

\* The tokens a client may present once `issued` was handed out: each
\* segment is the issued one, another spelling of it, or a segment of a
\* token made elsewhere (another header, another payload, a signature under
\* another key or over another token of this worker).
Presented(issued, clock) ==
    LET elsewhere == {signJWT(c, k, t, clock) : c \in ClaimSets, k \in {JWT_SECRET, "k2"},
                                                t \in Ttls}
        forged == b64(JSONstringifyFields([alg |-> "none", typ |-> "JWT"]))
    IN  { <<h, p, sg>> :
            h \in Variants(issued[1]) \cup {forged},
            p \in Variants(issued[2]) \cup {e[2] : e \in elsewhere},
            sg \in Variants(issued[3]) \cup {e[3] : e \in elsewhere}
                    \cup {b64(HmacSign(k, Base(issued[1], issued[2]))) :
                              k \in {JWT_SECRET, "k2"}} }

InitJwt ==
    /\ RoomStart
    /\ PartyStart
    /\ BucketStart
    /\ media = [pc |-> "idle"]
    /\ retry = [pc |-> "idle"]
    /\ jwt = [pc |-> "idle"]
    /\ kv = EmptyObject
    /\ gate = [pc |-> "idle"]

\* POST /login issues a token, lines 396-400, at some time of the clock.
JwtSign(claims, ttl, clock) ==
    /\ jwt.pc = "idle"
    /\ jwt' = [pc |-> "issued", claims |-> claims, ttl |-> ttl, iat |-> clock,
               clock |-> clock, issued |-> signJWT(claims, JWT_SECRET, ttl, clock),
               token |-> <<>>, result |-> [outcome |-> "none"]]

\* Half a second passes.
JwtTick ==
    /\ jwt.pc = "issued"
    /\ jwt.clock < MaxClock * 500
    /\ jwt' = [jwt EXCEPT !.clock = @ + 500]

\* requireRole hands a presented token to verifyJWT, line 165.
JwtVerify(token) ==
    /\ jwt.pc = "issued"
    /\ jwt' = [jwt EXCEPT !.pc = "verified", !.token = token,
                          !.result = verifyJWT(token, JWT_SECRET, jwt.clock)]

\* A route, or another caller, asks requireRole for `role` on a request
\* with the Authorization header `auth`; `user` keeps what verifyJWT gave.
JwtRequire(auth, role) ==
    /\ jwt.pc = "issued"
    /\ jwt' = [jwt EXCEPT
            !.pc = "required",
            !.token = auth,
            !.result = [role |-> role,
                        user |-> IF auth = Absent THEN Absent
                                 ELSE verifyJWT(auth.rest, JWT_SECRET, jwt.clock),
                        gate |-> requireRole(auth, JWT_SECRET, role, jwt.clock)]]

NextJwt ==
    \/ \E claims \in ClaimSets, ttl \in Ttls, clock \in {1000, 1500} :
            JwtSign(claims, ttl, clock)
                /\ UNCHANGED <<roomVars, partyVars, bucketVars, media, retry, kv, gate>>
    \/ JwtTick /\ UNCHANGED <<roomVars, partyVars, bucketVars, media, retry, kv, gate>>
    \/ /\ jwt.pc = "issued"
       /\ \E token \in Presented(jwt.issued, jwt.clock) :
              JwtVerify(token)
       /\ UNCHANGED <<roomVars, partyVars, bucketVars, media, retry, kv, gate>>
    \/ /\ jwt.pc = "issued"
       /\ \E auth \in {Absent} \cup
                {[scheme |-> sc, rest |-> token] :
                    sc \in {"Bearer ", "Basic x"},
                    token \in Presented(jwt.issued, jwt.clock)},
             role \in {"admin", "user"} :
              JwtRequire(auth, role)
       /\ UNCHANGED <<roomVars, partyVars, bucketVars, media, retry, kv, gate>>

SpecJwt == InitJwt /\ [][NextJwt]_vars

\* ------------------------------------ POST /login and the privileged routes
\* decodeURIComponent(url.pathname.slice(7)), line 1052: names are ranks, 0
\* the empty name; -1 stands for a path with a malformed escape such as "%",
\* on which the function throws a URIError.
decodeURIComponent(path) ==
    IF path = -1 THEN [threw |-> TRUE, name |-> 0] ELSE [threw |-> FALSE, name |-> path]

\* The deployment: env.ACCESS_KEY and env.JWT_SECRET are configured or not
\* (the provisioning of src/api/provision/index.js binds MEDIA, KV and PARTY
\* only). An access key not configured is "undefined"; a secret not
\* configured is encoded by lines 30 and 46 as the empty text, which
\* crypto.subtle.importKey takes as a key or rejects, as the runtime has it.
\* The clock stands at three seconds.
InitGate ==
    /\ RoomStart
    /\ PartyStart
    /\ bucket \in InitialBuckets
    /\ quota = IdleQuota
    /\ upload = IdleUpload
    /\ now = 4
    /\ inflight = NoneInFlight
    /\ media = [pc |-> "idle"]
    /\ retry = [pc |-> "idle"]
    /\ jwt = [pc |-> "idle"]
    /\ kv = [k \in {1} |-> "v0"]
    /\ \E key \in {"ak", "undefined"}, secret \in {JWT_SECRET, ""},
          importKey \in {"imports", "rejects"} :
           /\ importKey = "rejects" => secret = ""
           /\ gate = [pc |-> "idle", ACCESS_KEY |-> key, secret |-> secret,
                      importKey |-> importKey, clock |-> 3000]

\* POST /login, lines 389-405: `body` is the request body, JSON or not, with
\* its access_key ("undefined" when it has none). A body that is not JSON
\* throws out of req.json() into the catch of lines 1146-1159, and so does
\* a key that importKey rejects (line 27).
GateLogin(body) ==
    /\ gate.pc = "idle"
    /\ gate' =
           [pc |-> "done", ACCESS_KEY |-> gate.ACCESS_KEY, secret |-> gate.secret,
            importKey |-> gate.importKey, clock |-> gate.clock,
            route |-> "POST /login", auth |-> Absent, name |-> 0, body |-> body,
            response |->
                IF ~body.json THEN [status |-> 500, token |-> Absent]
                ELSE IF body.access_key # gate.ACCESS_KEY
                THEN [status |-> 401, token |-> Absent]
                ELSE IF gate.importKey = "rejects"
                THEN [status |-> 500, token |-> Absent]
                ELSE [status |-> 200,
                      token |-> [jwt |-> signJWT([role |-> "admin", perms |-> "all"],
                                                 gate.secret, 1800, gate.clock)]]]
    /\ UNCHANGED <<kv, bucket, quota, upload>>

\* A request at POST /kv/, DELETE /kv/, POST /upload or DELETE /files/ runs
\* to its `await requireRole` (lines 478-480, 529-531, 578-580, 1051-1054);
\* DELETE /files/ decodes the name first, and a URIError leaves the route.
GateArrive(route, auth, path) ==
    /\ gate.pc = "idle"
    /\ LET filename == IF route = "DELETE /files" THEN decodeURIComponent(path)
                       ELSE [threw |-> FALSE, name |-> path]
       IN  gate' =
               [pc |-> IF filename.threw THEN "done" ELSE "auth",
                ACCESS_KEY |-> gate.ACCESS_KEY, secret |-> gate.secret,
                importKey |-> gate.importKey, clock |-> gate.clock,
                route |-> route, auth |-> auth, name |-> filename.name,
                body |-> Absent,
                response |-> IF filename.threw
                             THEN [status |-> 500, token |-> Absent]
                             ELSE Absent]
    /\ UNCHANGED <<kv, bucket, quota, upload>>

\* requireRole has settled (verifyJWT throws where importKey rejects the
\* key, line 43): 401 from the catch around it, or the route goes
\* on: 400 for an empty name, else the put or delete and 200 (lines 509-521,
\* 559-571, 1087-1102); POST /upload goes on to its call of enforceQuota
\* (line 734) for the files the link gave, none of the lines between writing
\* to a store.
GateChecked(files) ==
    /\ gate.pc = "auth"
    /\ LET required == requireRole(gate.auth, gate.secret, "admin", gate.clock)
           user == IF gate.importKey = "rejects"
                      /\ ~(required.outcome = "threw" /\ required.error = "missing token")
                   THEN [outcome |-> "threw", error |-> "DataError"]
                   ELSE required
           answer(status) == [gate EXCEPT !.pc = "done",
                                         !.response = [status |-> status,
                                                       token |-> Absent]]
       IN  IF user.outcome = "threw"
           THEN gate' = answer(401) /\ UNCHANGED <<kv, bucket, quota, upload>>
           ELSE IF gate.route = "POST /upload"
           THEN /\ gate' = [gate EXCEPT !.pc = "upload"]
                /\ upload' = NewUpload(files, 1)
                /\ quota' = QuotaCall(MAX_BUCKET_SIZE, TotalSize(files))
                /\ UNCHANGED <<kv, bucket>>
           ELSE IF gate.name = 0
           THEN gate' = answer(400) /\ UNCHANGED <<kv, bucket, quota, upload>>
           ELSE /\ gate' = answer(200)
                /\ kv' = CASE gate.route = "POST /kv" ->
                                 [k \in DOMAIN kv \cup {gate.name} |->
                                     IF k = gate.name THEN "v1" ELSE kv[k]]
                            [] gate.route = "DELETE /kv" ->
                                 [k \in DOMAIN kv \ {gate.name} |-> kv[k]]
                            [] OTHER -> kv
                /\ bucket' = IF gate.route = "DELETE /files"
                             THEN [k \in DOMAIN bucket \ {gate.name} |-> bucket[k]]
                             ELSE bucket
                /\ UNCHANGED <<quota, upload>>

\* The requests a client may send at the clock of three seconds: with no
\* Authorization header, or with a scheme and a token, which is an admin
\* token in date (its signature in any spelling), one out of date, one of
\* role user, or one signed with another key or with the empty key.
NextGate ==
    \/ \E body \in [json : BOOLEAN, access_key : {"ak", "other", "undefined"}] :
            GateLogin(body)
                /\ UNCHANGED <<roomVars, partyVars, now, inflight, media, retry, jwt>>
    \/ \E route \in {"POST /kv", "DELETE /kv", "POST /upload", "DELETE /files"},
          path \in {-1, 0, 1},
          auth \in {Absent} \cup
              {[scheme |-> sc, rest |-> token] :
                  sc \in {"Bearer ", "Basic x"},
                  token \in
                      LET admin == [role |-> "admin", perms |-> "all"]
                          valid == signJWT(admin, JWT_SECRET, 2, 1000)
                      IN  {<<valid[1], valid[2], sg>> : sg \in Variants(valid[3])}
                          \cup {signJWT(admin, JWT_SECRET, 1, 1000),
                                signJWT([role |-> "user", perms |-> "all"],
                                        JWT_SECRET, 2, 1000),
                                signJWT(admin, "k2", 2, 1000),
                                signJWT(admin, "", 2, 1000)}} :
            GateArrive(route, auth, path)
                /\ UNCHANGED <<roomVars, partyVars, now, inflight, media, retry, jwt>>
    \/ \E files \in FileLinks :
            GateChecked(files)
                /\ UNCHANGED <<roomVars, partyVars, now, inflight, media, retry, jwt>>
    \/ gate.pc = "upload" /\ QuotaListed
            /\ UNCHANGED <<roomVars, partyVars, restVars, upload, inflight>>
    \/ gate.pc = "upload" /\ QuotaDeleted
            /\ UNCHANGED <<roomVars, partyVars, restVars, upload, inflight>>
    \/ gate.pc = "upload" /\ UploadQuotaRejected
            /\ UNCHANGED <<roomVars, partyVars, restVars, inflight>>
    \/ \E ok \in BOOLEAN :
            gate.pc = "upload" /\ UploadFetched(ok)
                /\ UNCHANGED <<roomVars, partyVars, restVars, inflight>>
    \/ \E ok \in BOOLEAN :
            gate.pc = "upload" /\ UploadPut(ok)
                /\ UNCHANGED <<roomVars, partyVars, restVars, inflight>>

SpecGate == InitGate /\ [][NextGate]_vars

\* ------------------------------------------------------- claims, the room
Members(list) == {list[k] : k \in DOMAIN list}

\* A message handler started in this step: it merged and suspended in persist.
HandlerStarted == Len(pending') = Len(pending) + 1

\* The handler at the head of `pending` ended in this step.
HandlerEnded == Len(pending') < Len(pending)

\* The state a fresh instance holds after its init() has read `store`.
Reloaded(store) ==
    IF "state" \in DOMAIN store THEN ObjectAssign(DefaultState, store["state"])
    ELSE DefaultState

\* C1: when the message handler receives a JSON object U in state S, the
\* canonical state afterwards has U's value in every field of U, S's value in
\* every other field of S, and no field of S is gone.
C1_FieldwiseOverwrite ==
    [][HandlerStarted /\ JSONparse(pending'[Len(pending')].text).type = "object" =>
        LET U == JSONparse(pending'[Len(pending')].text).value
            S == stateData
        IN  /\ DOMAIN stateData' = DOMAIN S \cup DOMAIN U
            /\ \A f \in DOMAIN U : stateData'[f] = U[f]
            /\ \A f \in DOMAIN S \ DOMAIN U : stateData'[f] = S[f]]_vars

\* An object was merged into a state that init() had loaded from storage: the
\* update's fields are in, the loaded field it does not name is kept.
C1_Witness ==
    /\ pending # <<>>
    /\ JSONparse(pending[1].text).type = "object"
    /\ pending[1].pre.paused = FALSE
    /\ pending[1].pre.timestamp = 3
    /\ stateData.timestamp = 7
    /\ stateData.chat = "hi"
    /\ stateData.paused = FALSE

\* C2: after each update is handled the durably stored state is the
\* field-wise merge of the state before it and the update, and a fresh
\* instance that runs init() holds that merged state again.
C2_PersistedIsMerge ==
    [][HandlerEnded /\ JSONparse(Head(pending).text).type = "object" =>
        LET h == Head(pending)
            merged == [f \in DOMAIN h.pre \cup DOMAIN OwnProperties(JSONparse(h.text)) |->
                          IF f \in DOMAIN OwnProperties(JSONparse(h.text))
                          THEN OwnProperties(JSONparse(h.text))[f] ELSE h.pre[f]]
        IN  /\ "state" \in DOMAIN storage'
            /\ storage'["state"] = merged
            /\ Reloaded(storage') = merged]_vars

\* C3: no send carries a field value of an update whose persist has not
\* completed, unless that value is the durable one anyway.  (Stated for the
\* updates that are JSON objects, once the initial load is over.)
C3_DurableBeforeObserved ==
    \A r \in sends : \A k \in DOMAIN pending :
        LET U == OwnProperties(JSONparse(pending[k].text)) IN
        \A f \in DOMAIN U \cap DOMAIN r.msg :
            r.msg[f] = U[f] /\ JSONparse(pending[k].text).type = "object"
                            /\ initWait = <<>> =>
                /\ "state" \in DOMAIN storage
                /\ f \in DOMAIN storage["state"]
                /\ storage["state"][f] = U[f]

\* C4: the broadcast that follows a persisted message of session s sends the
\* whole canonical state, once, to every member of the room at that time other
\* than s, and nothing to s.
C4_BroadcastAllButSender ==
    [][PersistDone =>
        LET s == Head(pending).sender IN
        /\ {r.to : r \in sends'} = Members(sessions) \ {s}
        /\ Cardinality(sends') = Cardinality(Members(sessions) \ {s})
        /\ \A r \in sends' :
              /\ r.kind = "broadcast"
              /\ r.msg = stateData
              /\ DOMAIN DefaultState \subseteq DOMAIN r.msg]_vars

\* A broadcast reached two peers while its sender was still in the room.
C4_Witness ==
    /\ Cardinality(sends) = 2
    /\ \A r \in sends : r.kind = "broadcast" /\ r.except \in Members(sessions)
                        /\ r.to # r.except

\* C5: the first message delivered to a socket that joined is the initial
\* state sent by its own connect, which is the canonical state of that moment;
\* nothing is delivered to a socket before it has joined.
C5_InitialStateFirst ==
    /\ \A i \in Sockets : sock[i] # "new" => firstKind[i] = "initial"
    /\ \A i \in Sockets : sock[i] = "new" => firstKind[i] = "none"
    /\ \A r \in sends : r.kind = "initial" => r.ok /\ r.msg = stateData

\* A socket that joined is reached by another session's broadcast.
C5_Witness ==
    \E r \in sends : r.kind = "broadcast" /\ r.ok /\ firstKind[r.to] = "initial"

\* C6: on one actor instance the stored state is read once, by the first
\* fetch; no later fetch reads it again; and until a message has been merged
\* the state is what was stored, or the constructor's default when nothing was.
C6_LoadedOnce ==
    /\ loadCount = (IF fetchCount = 0 THEN 0 ELSE 1)
    /\ (initialized /\ initWait = <<>> /\ msgCount = 0) =>
            stateData = (IF "state" \in DOMAIN storage THEN storage["state"]
                         ELSE DefaultState)

\* Three connections were made on an instance that found nothing stored.
C6_Witness ==
    /\ fetchCount = 3
    /\ Len(sessions) = 3
    /\ loadCount = 1
    /\ storage = EmptyObject
    /\ stateData = DefaultState

\* C7: when no handler and no load is in flight (storage and sockets never
\* failing), every connected session other than the sender of the last handled
\* update has the canonical state as its most recently received message.
C7_EventuallyConsistent ==
    (pending = <<>> /\ initWait = <<>>) =>
        \A i \in Members(sessions) : i # handled => last[i] = stateData

\* C8: if a send of the broadcast throws, every other member of the room that
\* is not the sender is still sent the state, the members whose socket is open
\* receive it, the sender is sent nothing, and no exception leaves broadcast.
C8_FanOutContinues ==
    [][PersistDone =>
        LET s == Head(pending).sender IN
        /\ \A i \in Members(sessions) \ {s} :
              \E r \in sends' : r.to = i /\ r.msg = stateData
                                /\ (r.ok <=> sock[i] = "open")
        /\ \A r \in sends' : r.to # s
        /\ ~broadcast(s).threw]_vars

\* A broadcast whose send to one peer threw reached a peer that comes later in
\* this.sessions.
C8_Witness ==
    \E j, k \in DOMAIN sessions :
        /\ j < k
        /\ \E r \in sends : r.kind = "broadcast" /\ r.to = sessions[j] /\ ~r.ok
        /\ \E r \in sends : r.kind = "broadcast" /\ r.to = sessions[k] /\ r.ok

\* C9: a message that is not a JSON object is dropped: no handler merges it,
\* persists for it or broadcasts for it.
C9_MalformedDropped ==
    \A k \in DOMAIN pending : JSONparse(pending[k].text).type = "object"

\* C10: the step that handles a close removes the socket from this.sessions and
\* sends nothing; a closed socket is never in this.sessions and never the
\* target of a send.
C10_ClosedNeverTarget ==
    [][/\ \A i \in Sockets : sock[i] # "closed" /\ sock'[i] = "closed" =>
              /\ sends' = {}
              /\ i \notin Members(sessions')
              /\ Members(sessions') = Members(sessions) \ {i}
       /\ \A i \in Sockets : sock'[i] = "closed" =>
              /\ i \notin Members(sessions')
              /\ \A r \in sends' : r.to # i]_vars

\* A handler that was suspended in persist while a session closed has
\* broadcast to the sessions that remain.
C10_Witness ==
    /\ \E r \in sends : r.kind = "broadcast" /\ r.raced
    /\ \E i \in Sockets : sock[i] = "closed"

\* C11: a session whose connection has reported an error is no longer a member
\* of the room.
C11_ErroredRemoved ==
    \A i \in Sockets : sock[i] = "errored" => i \notin Members(sessions)

\* The canonical state, persisted state and session set of the room named n.
RoomOf(n) ==
    LET a == actors[idFromName(n)] IN <<a.stateData, a.storage, a.sessions>>

\* C12: every open connection made for a room name is a session of the actor
\* of that name and of no other room's actor, and a step handled for one room
\* leaves the canonical state, persisted state and session set of every other
\* room as they were.
C12_RoomsIndependent ==
    [][/\ \A n \in RoomNames : n # at' => RoomOf(n)' = RoomOf(n)
       /\ \A c \in DOMAIN conn' : conn'[c].state = "open" =>
              /\ c \in Members(actors'[idFromName(conn'[c].room)].sessions)
              /\ \A n \in RoomNames \ {conn'[c].room} :
                     c \notin Members(actors'[idFromName(n)].sessions)]_vars

\* Both rooms have a session, and room "a" has merged an update while room "b"
\* still holds what its own storage had.
C12_Witness ==
    /\ actors[idFromName("a")].sessions # <<>>
    /\ actors[idFromName("b")].sessions # <<>>
    /\ "chat" \in DOMAIN actors[idFromName("a")].stateData
    /\ "state" \in DOMAIN actors[idFromName("a")].storage
    /\ "chat" \notin DOMAIN actors[idFromName("b")].stateData
    /\ actors[idFromName("b")].storage \in InitialStorage

\* -------------------------------------------------- claims, enforceQuota
RECURSIVE BucketTotal(_)
BucketTotal(b) ==
    IF DOMAIN b = {} THEN 0
    ELSE LET k == CHOOSE j \in DOMAIN b : TRUE
         IN  b[k].size + BucketTotal([j \in DOMAIN b \ {k} |-> b[j]])

QuotaReturned == quota.pc = "done"

\* The bucket content `b` without the keys of D.
Without(b, D) == [k \in DOMAIN b \ D |-> b[k]]

\* C13: when enforceQuota returns, the objects left total at most maxBytes,
\* and if incoming <= maxBytes the objects left plus incoming total at most
\* maxBytes.
C13_WithinBudgetAfter ==
    QuotaReturned =>
        /\ BucketTotal(bucket) <= quota.maxBytes
        /\ quota.additionalSize <= quota.maxBytes =>
               BucketTotal(bucket) + quota.additionalSize <= quota.maxBytes

\* enforceQuota evicted from a bucket that was over budget with the upload and
\* left objects that, with the upload, fill the budget exactly.
C13_Witness ==
    /\ QuotaReturned
    /\ quota.result.deletedCount > 0
    /\ quota.additionalSize > 0
    /\ DOMAIN bucket # {}
    /\ BucketTotal(bucket) + quota.additionalSize = quota.maxBytes

\* C14 as stated: no smaller number of deletions, of any objects, brings the
\* existing total plus incoming to at most maxBytes.
C14_FewestDeletions ==
    QuotaReturned =>
        \A D \in SUBSET DOMAIN quota.before :
            Cardinality(D) < quota.result.deletedCount =>
                BucketTotal(Without(quota.before, D)) + quota.additionalSize
                    > quota.maxBytes

\* The keys of the first m deletions.
FirstDeleted(m) == {quota.deleted[j] : j \in 1..m}

\* C14 amended: enforceQuota stops at the first deletion that reaches the
\* budget: after each smaller number of its deletions, in the order it made
\* them, the existing total plus incoming was still above maxBytes.
C14_StopsWhenMet ==
    QuotaReturned =>
        /\ quota.result.deletedCount = Len(quota.deleted)
        /\ \A m \in 0..(Len(quota.deleted) - 1) :
              BucketTotal(Without(quota.before, FirstDeleted(m)))
                  + quota.additionalSize > quota.maxBytes

\* enforceQuota returned after deleting some objects and keeping others.
C14_Witness ==
    /\ QuotaReturned
    /\ quota.result.deletedCount >= 2
    /\ DOMAIN bucket # {}
    /\ BucketTotal(bucket) > 0

\* C15: the deleted objects are a prefix of the ascending upload-time order
\* (no object is deleted while one uploaded strictly earlier remains, and the
\* deletions are made in ascending upload-time order), and on return it is the
\* shortest such prefix that reaches the budget: nothing if the total was
\* within budget, otherwise the last deletion was needed, and objects remain
\* only if the budget is met.
C15_OldestFirstPrefix ==
    quota.pc \in {"delete", "done", "threw"} =>
        LET del == quota.deleted
            up(k) == quota.before[k].uploaded
        IN  /\ DOMAIN bucket = DOMAIN quota.before \ {del[j] : j \in DOMAIN del}
            /\ \A j \in DOMAIN del : \A r \in DOMAIN bucket : up(r) >= up(del[j])
            /\ \A j, k \in DOMAIN del : j < k => up(del[j]) <= up(del[k])
            /\ QuotaReturned =>
                  /\ BucketTotal(quota.before) + quota.additionalSize
                          <= quota.maxBytes => del = <<>>
                  /\ del # <<>> =>
                          BucketTotal(bucket) + quota.before[del[Len(del)]].size
                              + quota.additionalSize > quota.maxBytes
                  /\ DOMAIN bucket # {} =>
                          BucketTotal(bucket) + quota.additionalSize
                              <= quota.maxBytes

\* The object deleted comes after a remaining one in the listing (its key is
\* the greater) and was uploaded before it.
C15_Witness ==
    /\ QuotaReturned
    /\ \E j \in DOMAIN quota.deleted : \E r \in DOMAIN bucket :
          /\ quota.deleted[j] > r
          /\ quota.before[quota.deleted[j]].uploaded < bucket[r].uploaded

\* C16: when the existing sizes plus the incoming size are at most maxBytes,
\* enforceQuota deletes nothing, leaves the bucket as it was and returns
\* deletedCount 0 and freedSpace 0.
C16_NoEffectWithinBudget ==
    (/\ quota.pc \in {"delete", "done"}
     /\ BucketTotal(quota.before) + quota.additionalSize <= quota.maxBytes) =>
        /\ QuotaReturned
        /\ bucket = quota.before
        /\ quota.deleted = <<>>
        /\ quota.result = [success |-> TRUE, deletedCount |-> 0, freedSpace |-> 0]

\* enforceQuota returned on a bucket of two pages that, with the upload,
\* fills the budget exactly.
C16_Witness ==
    /\ QuotaReturned
    /\ Cardinality(DOMAIN quota.before) > ListLimit
    /\ quota.additionalSize > 0
    /\ BucketTotal(quota.before) + quota.additionalSize = quota.maxBytes
    /\ bucket = quota.before

\* The listing the call has made so far, as the set of its items.
Listed == {quota.items[j] : j \in DOMAIN quota.items}

\* C17: once the listing loop is left, every object of the bucket is among
\* the items exactly once, with its size and upload time, and has been counted
\* once in the total; and the loop asks for another page only while objects
\* remain unlisted, so it ends after the last page.
C17_AllPagesListed ==
    /\ quota.pc \in {"delete", "done"} =>
          /\ Len(quota.items) = Cardinality(DOMAIN quota.before)
          /\ Listed = {[key |-> k, size |-> quota.before[k].size,
                         uploaded |-> quota.before[k].uploaded] :
                            k \in DOMAIN quota.before}
          /\ quota.total + quota.freedSpace
                = quota.additionalSize + BucketTotal(quota.before)
          /\ quota.pages * ListLimit >= Cardinality(DOMAIN quota.before)
          /\ (quota.pages - 1) * ListLimit < Cardinality(DOMAIN quota.before)
                \/ quota.pages = 1
    /\ quota.pc = "list" =>
          /\ Len(quota.items) = quota.pages * ListLimit
          /\ quota.pages * ListLimit < Cardinality(DOMAIN quota.before)
                \/ quota.pages = 0

\* A listing of two pages was followed to its end.
C17_Witness ==
    /\ QuotaReturned
    /\ quota.pages = 2
    /\ Len(quota.items) = 3

\* C18: if the incoming size alone exceeds maxBytes, enforceQuota deletes
\* every object of the bucket and returns a success result that counts them.
C18_OversizedEvictsAll ==
    (QuotaReturned /\ quota.additionalSize > quota.maxBytes) =>
        /\ bucket = EmptyBucket
        /\ quota.result = [success |-> TRUE,
                            deletedCount |-> Cardinality(DOMAIN quota.before),
                            freedSpace |-> BucketTotal(quota.before)]

\* An upload larger than the budget emptied a bucket of three objects.
C18_Witness ==
    /\ QuotaReturned
    /\ quota.additionalSize > quota.maxBytes
    /\ Cardinality(DOMAIN quota.before) = 3
    /\ quota.result.deletedCount = 3
    /\ bucket = EmptyBucket

\* ----------------------------------------------------- claims, the upload
\* C19: within one POST /upload, an object is written to the bucket only when
\* the request's enforceQuota call has returned, and the call takes no step
\* once the request has written.
C19_EnforcedBeforeWrite ==
    [][/\ now' # now =>
              /\ QuotaReturned
              /\ quota' = quota
              /\ quota.additionalSize = upload.totalSize
       /\ (upload.pc = "running" /\ upload.uploaded # <<>>) =>
              quota' = quota]_vars

\* A request whose enforcement deleted objects has written its file.
C19_Witness ==
    /\ upload.pc = "done"
    /\ upload.uploaded # <<>>
    /\ quota.result.deletedCount > 0

\* C20: after a POST /upload has completed successfully, the objects in the
\* bucket total at most the byte budget.
C20_BudgetInvariant ==
    (upload.pc = "done" /\ upload.status = 200) =>
        BucketTotal(bucket) <= MAX_BUCKET_SIZE

\* Request r knew the size of its file before the download.
SizesKnown(r) ==
    \A j \in DOMAIN inflight[r].upload.files :
        inflight[r].upload.files[j].size = inflight[r].upload.files[j].actual

\* C21: when two POST /upload requests served at once have both completed
\* successfully, the objects in the bucket total at most the byte budget.
\* (Stated for requests that knew the sizes of their files.)
C21_ConcurrentWithinBudget ==
    (\A r \in Requests : /\ inflight[r].upload.pc = "done"
                          /\ inflight[r].upload.status = 200
                          /\ SizesKnown(r)) =>
        BucketTotal(bucket) <= MAX_BUCKET_SIZE

\* ------------------------------------------------- claims, GET /media/
\* A read of an object that was in the bucket at the lookup, with a Range
\* header, has been answered.
RangeAnswered ==
    /\ media.pc = "done"
    /\ media.found
    /\ media.range # "none"

\* C22: a range request on an existing object of size n is answered 416 with
\* `Content-Range: bytes */n` exactly when the parsed start is not a number,
\* is negative or is at least n, and then no bytes of the object are returned.
C22_Rejected416 ==
    RangeAnswered =>
        LET rejected ==
                /\ media.response.status = 416
                /\ media.response.contentRange =
                       [unit |-> "bytes", range |-> "*", size |-> media.size]
        IN  /\ rejected <=> \/ media.start.nan
                            \/ media.start.n < 0
                            \/ media.start.n >= media.size
            /\ rejected => media.response.bytes = Absent

\* bytes=5- on a two-byte object was rejected.
C22_Witness ==
    /\ RangeAnswered
    /\ media.response.status = 416
    /\ media.range = "bytes=5-"
    /\ media.size = 2

C24_NotFoundNamesKey ==
    (/\ media.pc = "done"
     /\ media.filename # 0
     /\ ~media.found) =>
        /\ media.response.status = 404
        /\ media.response.json =
               [error |-> "File not found", filename |-> media.filename]
        /\ media.response.bytes = Absent

\* A ranged read of a missing key was answered 404.
C24_Witness ==
    /\ media.pc = "done"
    /\ media.filename # 0
    /\ ~media.found
    /\ media.range = "bytes=0-1"
    /\ media.response.status = 404

\* C25: a read of a key that is deleted while the read is in progress, its
\* range (if any) having a start inside the object, either serves the object
\* or is answered 404.
C25_RaceIsNotFound ==
    (/\ media.pc = "done"
     /\ media.raced
     /\ ~(/\ media.found
          /\ media.range # "none"
          /\ (media.start.nan \/ media.start.n >= media.size))) =>
        media.response.status \in {200, 206, 404}

\* ------------------------------------------------ claims, fetchWithRetry
\* C26: when the server answers 429 exactly k times and then a success, with
\* k below `retries`, fetchWithRetry returns that response after exactly k
\* waits, the wait after attempt i (from 0) being 2^i seconds.
C26_BackoffThenSuccess ==
    (/\ retry.pc # "idle"
     /\ Len(retry.log) >= 1
     /\ Ok(retry.log[Len(retry.log)])
     /\ \A j \in 1..(Len(retry.log) - 1) : RateLimited(retry.log[j])) =>
        LET k == Len(retry.log) - 1
        IN  /\ retry.pc = "returned"
            /\ retry.result = retry.log[k + 1]
            /\ Len(retry.waits) = k
            /\ \A i \in 0..(k - 1) : retry.waits[i + 1] = 2^i * 1000

\* Three 429 answers and then 200: returned after three waits.
C26_Witness ==
    /\ retry.pc # "idle"
    /\ retry.pc = "returned"
    /\ Len(retry.log) = 4
    /\ \A j \in 1..3 : RateLimited(retry.log[j])
    /\ retry.waits = <<1000, 2000, 4000>>

\* C27: an answer with a non-success status other than 429 is the last
\* request of the call, which throws an error carrying the status and the
\* body text.
C27_OtherStatusNotRetried ==
    retry.pc # "idle" =>
        \A j \in 1..Len(retry.log) :
            (/\ retry.log[j].kind = "response"
             /\ ~Ok(retry.log[j])
             /\ retry.log[j].status # 429) =>
                /\ j = Len(retry.log)
                /\ retry.pc = "threw"
                /\ retry.error.status = retry.log[j].status
                /\ retry.error.text = retry.log[j].text

\* C28: a fetch that fails at the network level on attempt i, with attempts
\* remaining, is followed by a wait of 2^i seconds and then the next attempt.
C28_NetworkFailureRetried ==
    retry.pc # "idle" =>
        \A j \in 1..Len(retry.log) :
            (retry.log[j].kind = "network" /\ j - 1 < retry.retries - 1) =>
                \/ /\ j = Len(retry.log)
                   /\ retry.pc = "sleep"
                   /\ retry.delay = 2^(j - 1) * 1000
                   /\ Len(retry.waits) = j - 1
                \/ /\ Len(retry.waits) >= j
                   /\ retry.waits[j] = 2^(j - 1) * 1000
                   /\ \/ Len(retry.log) > j
                      \/ j = Len(retry.log) /\ retry.pc = "fetch" /\ retry.i = j

\* A network failure on attempt 1 was followed by a wait of two seconds and
\* a third attempt.
C28_Witness ==
    /\ retry.pc # "idle"
    /\ Len(retry.log) = 3
    /\ retry.log[2].kind = "network"
    /\ retry.waits[2] = 2000

\* C29: a call that has used all its attempts, each ended by a 429 answer
\* or a network failure, throws "Max retries exceeded".
C29_MaxRetriesExceeded ==
    (/\ retry.pc # "idle"
     /\ retry.pc = "threw"
     /\ Len(retry.log) = retry.retries
     /\ \A j \in 1..Len(retry.log) :
            RateLimited(retry.log[j]) \/ retry.log[j].kind = "network") =>
        retry.error = MaxRetriesExceeded

\* ------------------------------------------------ claims, the token checks
\* Every token signJWT produces under the worker's secret.
Produced ==
    {signJWT(c, JWT_SECRET, t, k * 500) : c \in ClaimSets, t \in Ttls,
                                          k \in 2..MaxClock}

\* C30: verifyJWT returns claims only for a token whose signature matches
\* header.payload under the secret; a token that differs in a segment from
\* what signJWT produces is rejected with "bad signature", whatever the
\* clock; and the token signJWT produced, verified before its expiry,
\* returns the claims it was issued for plus iat and exp.
C30_SignatureChecked ==
    jwt.pc = "verified" =>
        /\ jwt.result.outcome = "returned" =>
               /\ jwt.token[3].form # "invalid"
               /\ jwt.token[3].bytes =
                      [hmac |-> JWT_SECRET, over |-> <<jwt.token[1], jwt.token[2]>>]
        /\ jwt.token \notin Produced =>
               /\ jwt.result.outcome = "threw"
               /\ jwt.result.error = "bad signature"
        /\ (jwt.token = jwt.issued /\ jwt.clock <= ((jwt.iat \div 1000) + jwt.ttl) * 1000) =>
               /\ jwt.result.outcome = "returned"
               /\ jwt.result.payload =
                      [role |-> jwt.claims.role, perms |-> jwt.claims.perms,
                       iat |-> jwt.iat \div 1000,
                       exp |-> (jwt.iat \div 1000) + jwt.ttl]

\* C31: the token signJWT issued in second t with ttl carries exp = t + ttl,
\* and verifyJWT throws "expired" for it exactly when the clock is past exp;
\* no token is found expired at or before the exp it carries.
C31_ExpiredExactlyAfterExp ==
    jwt.pc = "verified" =>
        /\ jwt.token = jwt.issued =>
               LET exp == jwt.issued[2].bytes.json.exp
               IN  /\ exp = (jwt.iat \div 1000) + jwt.ttl
                   /\ jwt.result = [outcome |-> "threw", error |-> "expired"]
                          <=> jwt.clock > exp * 1000
        /\ jwt.result = [outcome |-> "threw", error |-> "expired"] =>
               jwt.clock > jwt.token[2].bytes.json.exp * 1000

\* Issued with ttl 1 and verified two seconds later: expired.
C31_Witness ==
    /\ jwt.pc = "verified"
    /\ jwt.token = jwt.issued
    /\ jwt.ttl = 1
    /\ jwt.clock = jwt.iat + 2000
    /\ jwt.result = [outcome |-> "threw", error |-> "expired"]

\* C32: when verifyJWT returned claims for the token of a Bearer header,
\* requireRole throws "forbidden" exactly when their role differs from the
\* required role, and it returns claims only when the roles are equal, the
\* claims verifyJWT returned.
C32_ForbiddenOnOtherRole ==
    (jwt.pc = "required" /\ jwt.token # Absent) =>
        LET required == jwt.result.role
            user == jwt.result.user
            answer == jwt.result.gate
        IN  /\ (jwt.token.scheme = "Bearer " /\ user.outcome = "returned") =>
                   /\ answer = [outcome |-> "threw", error |-> "forbidden"]
                          <=> user.payload.role # required
                   /\ user.payload.role = required => answer = user
            /\ answer.outcome = "returned" =>
                   /\ user.outcome = "returned"
                   /\ answer.payload.role = required
                   /\ answer.payload = user.payload

\* Claims of role user against the required role admin: forbidden.
C32_Witness ==
    /\ jwt.pc = "required"
    /\ jwt.token # Absent
    /\ jwt.result.role = "admin"
    /\ jwt.result.user.outcome = "returned"
    /\ jwt.result.user.payload.role = "user"
    /\ jwt.result.gate = [outcome |-> "threw", error |-> "forbidden"]

\* ------------------------------------------- claims, the loop of the upload
\* C39: in the loop over the files of POST /upload every turn ends with the
\* file in exactly one list: in `uploaded`, its put having stored it in this
\* step, or in `errors`, the bucket untouched; the lists change in no other
\* step, the turns take the files in order, and the 200 response comes when
\* every file has had its turn.
C39_FailureIsolated ==
    [][(upload.pc = "running" /\ upload'.served = upload.served) =>
          LET f == upload.files[upload.k]
              turn == upload'.k = upload.k + 1
          IN  /\ upload'.files = upload.files
              /\ upload'.k \in {upload.k, upload.k + 1}
              /\ ~turn => /\ upload'.uploaded = upload.uploaded
                          /\ upload'.errors = upload.errors
              /\ turn =>
                     \/ /\ upload'.uploaded = Append(upload.uploaded, f.name)
                        /\ upload'.errors = upload.errors
                        /\ f.name \in DOMAIN bucket'
                        /\ bucket'[f.name] = [size |-> f.actual, uploaded |-> now]
                     \/ /\ upload'.errors = Append(upload.errors, f.name)
                        /\ upload'.uploaded = upload.uploaded
                        /\ bucket' = bucket
              /\ (upload'.pc = "done" /\ upload'.status = 200) =>
                     /\ upload'.k = Len(upload.files) + 1
                     /\ Len(upload'.uploaded) + Len(upload'.errors)
                            = Len(upload.files)]_vars

\* The first file of two failed and the second was stored and listed.
C39_Witness ==
    /\ upload.pc = "done"
    /\ upload.status = 200
    /\ Len(upload.files) = 2
    /\ upload.files[1].name # upload.files[2].name
    /\ upload.errors = <<upload.files[1].name>>
    /\ upload.uploaded = <<upload.files[2].name>>
    /\ upload.files[2].name \in DOMAIN bucket

\* ------------------------------------------ claims, the ranges of GET /media/
\* C36: every 206 answer describes a range that is not empty and lies in the
\* object: 0 <= start <= end <= n-1 in Content-Range and
\* 1 <= Content-Length <= n, whatever the Range header was.
C36_PartialIsInBounds ==
    (media.pc = "done" /\ media.response.status = 206) =>
        LET from == media.response.contentRange.first
            to == media.response.contentRange.last
            len == media.response.contentLength
        IN  /\ ~from.nan /\ ~to.nan /\ ~len.nan
            /\ 0 <= from.n
            /\ from.n <= to.n
            /\ to.n <= media.size - 1
            /\ 1 <= len.n
            /\ len.n <= media.size

\* ------------------------------------- claims, the end of fetchWithRetry
\* C37: whatever the server does, a call of fetchWithRetry issues at most
\* `retries` requests, ends only by returning a success response or by
\* throwing an error, and does end.
C37_RetryTerminates ==
    /\ [](retry.pc # "idle" =>
            /\ Len(retry.log) <= retry.retries
            /\ retry.pc = "returned" =>
                   /\ retry.result = retry.log[Len(retry.log)]
                   /\ retry.result.kind = "response"
                   /\ retry.result.status \in 200..299
                   /\ retry.error = Absent
            /\ retry.pc = "threw" =>
                   /\ retry.error # Absent
                   /\ retry.result = Absent)
    /\ (retry.pc # "idle" ~> retry.pc \in {"returned", "threw"})

\* A call with four attempts used them all and threw.
C37_Witness ==
    /\ retry.pc = "threw"
    /\ retry.retries = 4
    /\ Len(retry.log) = 4

\* C38: the waits of a call are fewer than the requests it has issued, and
\* a wait is started only when another request is to follow.
C38_NoWaitAfterLastAttempt ==
    retry.pc # "idle" =>
        /\ Len(retry.log) >= 1 => Len(retry.waits) < Len(retry.log)
        /\ retry.pc = "sleep" => Len(retry.log) < retry.retries

\* ------------------------------------- claims, the room: failure and load
\* C34: when the put of a message's handler rejects, nothing is broadcast,
\* the sessions stay registered with their sockets as they were, and a
\* memory that agreed with the storage when the message arrived agrees with
\* the storage after the failure.
C34_PersistFailureContained ==
    [][PersistFail =>
          /\ sends' = {}
          /\ sessions' = sessions
          /\ sock' = sock
          /\ Head(pending).pre = Reloaded(storage) =>
                 stateData' = Reloaded(storage')]_vars

\* C35: a session is sent its initial state only once the load of init() has
\* finished, and, as long as no message has been handled, that initial state
\* has the value storage holds for every field persisted.
C35_NoStateBeforeLoad ==
    [][\A r \in sends' :
           r.kind = "initial" =>
               /\ initWait' = <<>>
               /\ (msgCount' = 0 /\ "state" \in DOMAIN storage) =>
                      \A f \in DOMAIN storage["state"] :
                          r.msg[f] = storage["state"][f]]_vars

\* ------------------------------------ claims, login and the privileged routes
\* The request at the gate carries a Bearer token whose signature is the
\* HMAC of its first two segments under the worker's secret, which is not
\* out of date, and whose role is admin.
Authorized ==
    /\ gate.auth # Absent
    /\ gate.auth.scheme = "Bearer "
    /\ LET token == gate.auth.rest
       IN  /\ token[3].form # "invalid"
           /\ token[3].bytes = HmacSign(gate.secret, <<token[1], token[2]>>)
           /\ token[2].form # "invalid"
           /\ token[2].bytes.json.exp * 1000 >= gate.clock
           /\ token[2].bytes.json.role = "admin"

\* C33: POST /kv, DELETE /kv, POST /upload and DELETE /files change the KV
\* store or the bucket (evictions of enforceQuota included) only for a
\* request that carries a valid, unexpired admin Bearer token; every other
\* request to them is answered 401 with both stores as they were.
C33_PrivilegedRoutesGated ==
    [][/\ (kv' # kv \/ bucket' # bucket) =>
              (gate.pc \in {"auth", "upload"} /\ Authorized)
       /\ (gate.pc # "done" /\ gate'.pc = "done" /\ gate'.route # "POST /login") =>
              (Authorized' \/ (/\ gate'.response.status = 401
                               /\ kv' = kv
                               /\ bucket' = bucket))]_vars

\* C40: POST /login answers with a token only when the body has an
\* access_key, the deployment has an ACCESS_KEY and the two are equal; any
\* other login is answered 401 without a token.
C40_LoginOnlyWithTheKey ==
    (gate.pc = "done" /\ gate.route = "POST /login") =>
        LET match == /\ gate.body.json
                     /\ gate.body.access_key # "undefined"
                     /\ gate.ACCESS_KEY # "undefined"
                     /\ gate.body.access_key = gate.ACCESS_KEY
        IN  /\ gate.response.token # Absent => match
            /\ ~match => (gate.response.status = 401 /\ gate.response.token = Absent)
====
